---- MODULE Spec2Model ----
(***************************************************************************)
(* Player movement / collision core of the platformer (sprites.py), driven *)
(* by the main loop (main.py).                                             *)
(*                                                                         *)
(* Units.  pos and vel are pygame.Vector2 (floats).  Every value they take *)
(* is a multiple of GRAVITY = 0.5, so they are kept here as integers in    *)
(* sub-pixel units, Half units to the pixel.  rect is a pygame.Rect in     *)
(* whole pixels.  The timers are seconds in the source; dt is              *)
(* clock.tick(FPS) / 1000.0, a whole number of milliseconds, so timers and *)
(* dt are kept in milliseconds.                                            *)
(*                                                                         *)
(* The sprite sheet metadata editor (cli/sheetmeta_editor.py) is a program *)
(* of its own: its window is the variable editor, driven by the user's     *)
(* inputs.                                                                 *)
(***************************************************************************)
EXTENDS Integers, Sequences, FiniteSets, TLC

\* ------------------------------------------------------------------ bounds
MaxTicks == 5
MaxPresses == 3
MaxFrames == 3
MaxEvents == 2
MaxRows == 2
MaxCols == 2
MaxBoxes == 2
MaxInputs == 6
MaxLongTicks == 20
MaxCalls == 6

\* --------------------------------------------------------------- settings.py
Half == 2
TILE_SIZE == 48
GRAVITY == 1
JUMP_VEL == -12 * Half
DASH_VEL == 75 * Half
MOVE_SPEED == 5 * Half
COYOTE_TIME == 120
JUMP_BUFFER_TIME == 120
DASH_BUFFER_TIME == 200
ACCEL_DECAY == 5 * Half

\* the number of decay steps of 5 that take a dash of DASH_VEL to zero
DecayTicks == DASH_VEL \div ACCEL_DECAY

\* dt values handed to update: a frame of clock.tick(60) and a lagging frame
DTs == {16, 120}

\* dt values of frames that take long: two of them are as long as
\* DASH_BUFFER_TIME, three of the short ones are longer
LagDTs == {80, 120}

\* keys[K_LEFT] or keys[K_a], keys[K_RIGHT] or keys[K_d]
Keys == [left : BOOLEAN, right : BOOLEAN]

\* --------------------------------------------------------------- rectangles
Rect(x, y, w, h) == [x |-> x, y |-> y, w |-> w, h |-> h]

PLAYER_W == (TILE_SIZE * 8) \div 10
PLAYER_H == (TILE_SIZE * 9) \div 10

\* pygame.Rect.colliderect: strict overlap, touching edges do not collide
colliderect(a, b) ==
    /\ a.x < b.x + b.w
    /\ b.x < a.x + a.w
    /\ a.y < b.y + b.h
    /\ b.y < a.y + a.h

\* pygame.Rect.move
move(r, dx, dy) == [r EXCEPT !.x = r.x + dx, !.y = r.y + dy]

\* int(round(v)) of a float held in sub-pixel units: Python 3 rounds a tie
\* to the even integer
round(v) ==
    IF v % Half = 0 THEN v \div Half
    ELSE LET f == (v - 1) \div Half
         IN  IF f % 2 = 0 THEN f ELSE f + 1

\* [r for r in solids if self.rect.colliderect(r)]
hits(rect, sol) == SelectSeq(sol, LAMBDA r : colliderect(rect, r))

overlaps(rect, sol) == \E i \in 1..Len(sol) : colliderect(rect, sol[i])

\* ------------------------------------------------------------------- Player
\* Player.__init__
NewPlayer(start_pos) ==
    [ rect |-> Rect(start_pos[1], start_pos[2], PLAYER_W, PLAYER_H),
      pos |-> [x |-> start_pos[1] * Half, y |-> start_pos[2] * Half],
      vel |-> [x |-> 0, y |-> 0],
      on_ground |-> FALSE,
      direction |-> "right",
      coyote_timer |-> 0,
      jump_buffer_timer |-> 0,
      dash_buffer_timer |-> 0,
      jumps |-> 0,
      acceleration |-> 0 ]

\* Player.handle_input
handle_input(p, keys) ==
    LET l == IF keys.left
             THEN [p EXCEPT !.vel.x = -MOVE_SPEED, !.direction = "left"]
             ELSE [p EXCEPT !.vel.x = 0]
    IN  IF keys.right
        THEN [l EXCEPT !.vel.x = MOVE_SPEED, !.direction = "right"]
        ELSE l

\* queue_jump that adds the buffer time to what is left of the last press
queue_jump_additive(p) == [p EXCEPT !.jump_buffer_timer = @ + JUMP_BUFFER_TIME]

\* Player.queue_jump
queue_jump(p) == [p EXCEPT !.jump_buffer_timer = JUMP_BUFFER_TIME]

\* Player.queue_dash
queue_dash(p) == [p EXCEPT !.dash_buffer_timer = DASH_BUFFER_TIME]

\* _do_jump that leaves the coyote timer running
_do_jump_keep_coyote(p) ==
    [p EXCEPT !.vel.y = JUMP_VEL,
              !.on_ground = FALSE,
              !.jump_buffer_timer = 0]

\* _do_jump that leaves the press in the buffer
_do_jump_keep_buffer(p) ==
    [p EXCEPT !.vel.y = JUMP_VEL,
              !.on_ground = FALSE,
              !.coyote_timer = 0]

\* Player._do_jump
_do_jump(p) ==
    [p EXCEPT !.vel.y = JUMP_VEL,
              !.on_ground = FALSE,
              !.coyote_timer = 0,
              !.jump_buffer_timer = 0]

\* the dash that goes right whatever the direction
_do_dash_right(p) ==
    [p EXCEPT !.acceleration = DASH_VEL,
              !.dash_buffer_timer = 0]

\* Player._do_dash
_do_dash(p) ==
    [p EXCEPT !.acceleration = IF p.direction = "right" THEN DASH_VEL ELSE -DASH_VEL,
              !.dash_buffer_timer = 0]

\* gravity applied to a grounded body only
apply_gravity_grounded(p) ==
    IF p.on_ground THEN [p EXCEPT !.vel.y = p.vel.y + GRAVITY] ELSE p

\* gravity applied to an airborne body only
apply_gravity_airborne(p) ==
    IF p.on_ground THEN p ELSE [p EXCEPT !.vel.y = p.vel.y + GRAVITY]

\* Player.apply_gravity
apply_gravity(p) == [p EXCEPT !.vel.y = p.vel.y + GRAVITY]

\* the probe that tests the rect where it is
_ground_probe_in_place(p, sol, epsilon) == overlaps(move(p.rect, 0, 0), sol)

\* Player._ground_probe
_ground_probe(p, sol, epsilon) == overlaps(move(p.rect, 0, epsilon), sol)

\* the horizontal resolution without the clamp of a body moving right
resolve_x_left_only(p, r) ==
    LET c == IF p.vel.x < 0 THEN [p EXCEPT !.rect.x = r.x + r.w] ELSE p
    IN  [c EXCEPT !.pos.x = c.rect.x * Half]

\* one iteration of the horizontal loop of move_and_collide
resolve_x(p, r) ==
    LET c == IF p.vel.x > 0 THEN [p EXCEPT !.rect.x = r.x - p.rect.w]
             ELSE IF p.vel.x < 0 THEN [p EXCEPT !.rect.x = r.x + r.w]
             ELSE p
    IN  [c EXCEPT !.pos.x = c.rect.x * Half]

\* the vertical resolution without the re-sync of pos.y
resolve_y_no_sync(st, r) ==
    LET p == st.p
    IN  [p |-> IF p.vel.y > 0
               THEN [p EXCEPT !.rect.y = r.y - p.rect.h, !.vel.y = 0]
               ELSE IF p.vel.y < 0
               THEN [p EXCEPT !.rect.y = r.y + r.h, !.vel.y = 0]
               ELSE p,
         landed |-> st.landed \/ p.vel.y > 0]

\* one iteration of the vertical loop of move_and_collide; st carries the
\* body and the local flag landed
resolve_y(st, r) ==
    LET p == st.p
        c == IF p.vel.y > 0
             THEN [p EXCEPT !.rect.y = r.y - p.rect.h, !.vel.y = 0]
             ELSE IF p.vel.y < 0
             THEN [p EXCEPT !.rect.y = r.y + r.h, !.vel.y = 0]
             ELSE p
    IN  [p |-> [c EXCEPT !.pos.y = c.rect.y * Half],
         landed |-> st.landed \/ p.vel.y > 0]

RECURSIVE loop_x(_, _)
loop_x(p, hs) == IF hs = <<>> THEN p ELSE loop_x(resolve_x(p, Head(hs)), Tail(hs))

RECURSIVE loop_y(_, _)
loop_y(st, hs) == IF hs = <<>> THEN st ELSE loop_y(resolve_y(st, Head(hs)), Tail(hs))

\* move_and_collide, horizontal part
horizontal(p, sol) ==
    LET a == [p EXCEPT !.pos.x = p.pos.x + p.vel.x]
        b == [a EXCEPT !.rect.x = round(a.pos.x)]
    IN  loop_x(b, hits(b.rect, sol))

\* move_and_collide, vertical part: the body and the flag landed
vertical(p, sol) ==
    LET a == [p EXCEPT !.pos.y = p.pos.y + p.vel.y]
        b == [a EXCEPT !.rect.y = round(a.pos.y)]
    IN  loop_y([p |-> b, landed |-> FALSE], hits(b.rect, sol))

\* the grounded decision without the coyote re-arm
ground_no_rearm(st, sol) ==
    [st.p EXCEPT !.on_ground = st.landed \/ _ground_probe(st.p, sol, 1)]

\* the grounded decision with the coyote re-arm on a landing only
ground_rearm_on_landing(st, sol) ==
    [st.p EXCEPT !.on_ground = st.landed \/ _ground_probe(st.p, sol, 1),
                 !.coyote_timer = IF st.landed THEN COYOTE_TIME ELSE st.p.coyote_timer]

\* the grounded decision without the probe
ground_landed_only(st, sol) ==
    [st.p EXCEPT !.on_ground = st.landed,
                 !.coyote_timer = IF st.landed THEN COYOTE_TIME ELSE st.p.coyote_timer]

\* move_and_collide, the grounded decision and the coyote re-arm
ground(st, sol) ==
    LET g == st.landed \/ _ground_probe(st.p, sol, 1)
    IN  [st.p EXCEPT !.on_ground = g,
                     !.coyote_timer = IF g THEN COYOTE_TIME ELSE st.p.coyote_timer]

\* Player.move_and_collide
move_and_collide(p, sol) == ground(vertical(horizontal(p, sol), sol), sol)

\* the decrement of every timer, expired or not
tick_timers_unguarded(p, dt) ==
    [p EXCEPT !.coyote_timer = @ - dt,
              !.jump_buffer_timer = @ - dt,
              !.dash_buffer_timer = @ - dt]

\* Player.update, "tick timers"
tick_timers(p, dt) ==
    [p EXCEPT !.coyote_timer = IF @ > 0 THEN @ - dt ELSE @,
              !.jump_buffer_timer = IF @ > 0 THEN @ - dt ELSE @,
              !.dash_buffer_timer = IF @ > 0 THEN @ - dt ELSE @]

\* Player.update, "increase velocity by acceleration"
add_acceleration(p) == [p EXCEPT !.vel.x = p.vel.x + p.acceleration]

\* the decay that leaves a negative acceleration as it is
decay_positive_only(p) ==
    [p EXCEPT !.acceleration = IF @ > 0 THEN @ - ACCEL_DECAY ELSE @]

\* Player.update, the decay of acceleration after move_and_collide
decay(p) ==
    LET a == IF p.acceleration < 0 THEN p.acceleration + ACCEL_DECAY ELSE p.acceleration
    IN  [p EXCEPT !.acceleration = IF a > 0 THEN a - ACCEL_DECAY ELSE a]

\* the jump condition with the cap off by one
jump_allowed_three(p) ==
    p.jump_buffer_timer > 0 /\ (p.on_ground \/ p.coyote_timer > 0 \/ p.jumps <= 2)

\* the jump condition that takes a buffer run down to exactly zero
jump_allowed_at_zero(p) ==
    p.jump_buffer_timer >= 0 /\ (p.on_ground \/ p.coyote_timer > 0 \/ p.jumps < 2)

\* Player.update, the condition of "consume buffered jump if allowed"
jump_allowed(p) ==
    p.jump_buffer_timer > 0 /\ (p.on_ground \/ p.coyote_timer > 0 \/ p.jumps < 2)

\* the consumption without the count of the jump
consume_jump_uncounted(p) ==
    IF p.jump_buffer_timer > 0 /\ (p.on_ground \/ p.coyote_timer > 0 \/ p.jumps < 2)
    THEN _do_jump(p)
    ELSE p

\* Player.update, "consume buffered jump if allowed"
consume_jump(p) ==
    IF jump_allowed(p)
    THEN [_do_jump(p) EXCEPT !.jumps = p.jumps + 1]
    ELSE p

\* the dash that fires on a timer that is not positive
consume_dash_on_zero(p) == IF p.dash_buffer_timer <= 0 THEN _do_dash(p) ELSE p

\* the dash that fires while the buffer is running
consume_dash_while_armed(p) == IF p.dash_buffer_timer # 0 THEN _do_dash(p) ELSE p

\* Player.update, "perform a dash if allowed"
consume_dash(p) == IF p.dash_buffer_timer < 0 THEN _do_dash(p) ELSE p

\* Player.update up to the call of move_and_collide: timers, input, gravity
\* and the dash acceleration
before_move(p, keys, dt) ==
    add_acceleration(apply_gravity(handle_input(tick_timers(p, dt), keys)))

\* Player.update up to and including the acceleration decay: the body as the
\* consumption step finds it
before_consume(p, keys, sol, dt) ==
    decay(move_and_collide(before_move(p, keys, dt), sol))

\* Player.update from "consume buffered jump if allowed" on
consume(p) == consume_dash(consume_jump(p))

\* update that consumes the buffered actions before it moves the body
update_consume_first(p, keys, sol, dt) ==
    decay(move_and_collide(consume(before_move(p, keys, dt)), sol))

\* Player.update
update(p, keys, sol, dt) == consume(before_consume(p, keys, sol, dt))

\* ------------------------------------------------------------------- level
\* A tilemap is a sequence of rows, a row a sequence of characters.
Chars == {"X", "x", "."}

Rows == UNION {[1..k -> Chars] : k \in 0..MaxCols}

Tilemaps == UNION {[1..n -> Rows] : n \in 1..MaxRows}

\* level.py: TILEMAP, each row written as its runs of equal characters
Run(ch, n) == [i \in 1..n |-> ch]

TILEMAP ==
    << Run(".", 47) \o Run("X", 1),
       Run(".", 47) \o Run("X", 1),
       Run(".", 47) \o Run("X", 1),
       Run(".", 47) \o Run("X", 1),
       Run(".", 20) \o Run("X", 3) \o Run(".", 24) \o Run("X", 1),
       Run(".", 28) \o Run("X", 2) \o Run(".", 17) \o Run("X", 1),
       Run(".", 14) \o Run("X", 3) \o Run(".", 30) \o Run("X", 1),
       Run(".", 47) \o Run("X", 1),
       Run(".", 22) \o Run("X", 4) \o Run(".", 21) \o Run("X", 1),
       Run(".", 28) \o Run("x", 1) \o Run(".", 18) \o Run("X", 1),
       Run("X", 4) \o Run(".", 26) \o Run("X", 1) \o Run(".", 16) \o Run("X", 1),
       Run(".", 4) \o Run("X", 4) \o Run(".", 25) \o Run("X", 3) \o Run(".", 11) \o Run("X", 1),
       Run(".", 17) \o Run("X", 3) \o Run(".", 27) \o Run("X", 1),
       Run(".", 37) \o Run("X", 1) \o Run(".", 9) \o Run("X", 1),
       Run("X", 48) >>

\* Platform.__init__: the rect of the platform
Platform(x, y, w, h) == Rect(x, y, w, h)

\* the scan of a row that takes a lowercase x for a tile as well
RECURSIVE scan_row_any_case(_, _, _)
scan_row_any_case(row, row_idx, n) ==
    IF n = 0 THEN <<>>
    ELSE LET col_idx == n - 1
             sol == scan_row_any_case(row, row_idx, n - 1)
         IN  IF row[col_idx + 1] \in {"X", "x"}
             THEN Append(sol, Platform(col_idx * TILE_SIZE, row_idx * TILE_SIZE,
                                       TILE_SIZE, TILE_SIZE))
             ELSE sol

\* Level.__init__: what the first n passes of "for col_idx, ch in
\* enumerate(row)" append to self.solids
RECURSIVE scan_row(_, _, _)
scan_row(row, row_idx, n) ==
    IF n = 0 THEN <<>>
    ELSE LET col_idx == n - 1
             sol == scan_row(row, row_idx, n - 1)
         IN  IF row[col_idx + 1] = "X"
             THEN Append(sol, Platform(col_idx * TILE_SIZE, row_idx * TILE_SIZE,
                                       TILE_SIZE, TILE_SIZE))
             ELSE sol

\* Level.__init__: self.solids after the first n passes of "for row_idx, row
\* in enumerate(TILEMAP)"
RECURSIVE scan_map(_, _)
scan_map(tilemap, n) ==
    IF n = 0 THEN <<>>
    ELSE scan_map(tilemap, n - 1) \o scan_row(tilemap[n], n - 1, Len(tilemap[n]))

\* the module with its TILEMAP, before Level() is called
NoLevel(tilemap) == [tilemap |-> tilemap, built |-> FALSE, solids |-> <<>>, size |-> <<0, 0>>]

\* Level.__init__
Level(tilemap) ==
    [tilemap |-> tilemap,
     built |-> TRUE,
     solids |-> scan_map(tilemap, Len(tilemap)),
     size |-> <<Len(tilemap[1]) * TILE_SIZE, Len(tilemap) * TILE_SIZE>>]

\* ------------------------------------------------------------ sprite sheet
\* Python's None; no entity or animation of the model has this name.
None == "None"

\* the truth value Python gives a str or None
truthy(v) == v # None /\ v # ""

\* Python's "a or b"
or(a, b) == IF truthy(a) THEN a ELSE b

\* An exception that propagates, or a returned value.
Raise(e) == [error |-> e, value |-> None]

Return(v) == [error |-> None, value |-> v]

\* BoxSpec: rect is a FrameSpec, id is <<>> for None and <<n>> for the int n
EntityNames == {"bytebuddy", "slime"}

AnimationNames == {"idle", "run"}

FrameSpecs == {[x |-> 0, y |-> 0, w |-> 32, h |-> 32], [x |-> 32, y |-> 0, w |-> 64, h |-> 48]}

BoxSpecs ==
    [rect : FrameSpecs, entity_name : EntityNames, animation_name : AnimationNames,
     frame_number : 0..1, id : {<<>>, <<0>>}]

\* SpriteSheetMeta.boxes
Metas == UNION {[1..n -> BoxSpecs] : n \in 0..MaxBoxes}

\* SpriteSheetMeta.default_entity_name
default_entity_name(boxes) ==
    IF boxes = <<>> THEN Raise("KeyError") ELSE Return(boxes[1].entity_name)

\* the sort key of animation_boxes: (frame_number, id if id is not None else -1)
sort_key(b) == <<b.frame_number, IF b.id = <<>> THEN -1 ELSE b.id[1]>>

\* the order of Python tuples of two ints
key_less(a, b) == a[1] < b[1] \/ (a[1] = b[1] /\ a[2] < b[2])

\* list.sort(key=...): stable, by insertion from the left
RECURSIVE insert(_, _)
insert(sorted, b) ==
    IF sorted = <<>> THEN <<b>>
    ELSE IF key_less(sort_key(b), sort_key(sorted[Len(sorted)]))
         THEN Append(insert(SubSeq(sorted, 1, Len(sorted) - 1), b), sorted[Len(sorted)])
         ELSE Append(sorted, b)

RECURSIVE sort(_)
sort(boxes) ==
    IF boxes = <<>> THEN <<>>
    ELSE insert(sort(SubSeq(boxes, 1, Len(boxes) - 1)), boxes[Len(boxes)])

\* the list comprehension of animation_boxes
RECURSIVE matching(_, _, _)
matching(boxes, entity, animation_name) ==
    IF boxes = <<>> THEN <<>>
    ELSE LET b == Head(boxes)
             rest_ == matching(Tail(boxes), entity, animation_name)
         IN  IF b.entity_name = entity /\ b.animation_name = animation_name
             THEN <<b>> \o rest_
             ELSE rest_

\* SpriteSheetMeta.animation_boxes
animation_boxes(boxes, animation_name, entity_name) ==
    LET d == IF truthy(entity_name) THEN Return(entity_name) ELSE default_entity_name(boxes)
    IN  IF d.error # None THEN d
        ELSE LET matches == matching(boxes, d.value, animation_name)
             IN  IF matches = <<>> THEN Raise("KeyError") ELSE Return(sort(matches))

\* SpriteSheet.__init__: the metadata and the default entity
SpriteSheet(boxes) ==
    LET d == default_entity_name(boxes)
    IN  [meta |-> boxes,
         default_entity |-> IF d.error = "KeyError" THEN None ELSE d.value,
         call |-> <<>>,
         out |-> Return(<<>>)]

\* SpriteSheet._representative_box_size
RECURSIVE _representative_box_size(_, _)
_representative_box_size(boxes, entity_name) ==
    IF boxes = <<>> THEN <<64, 64>>
    ELSE IF entity_name = None \/ Head(boxes).entity_name = entity_name
         THEN <<Head(boxes).rect.w, Head(boxes).rect.h>>
         ELSE _representative_box_size(Tail(boxes), entity_name)

\* SpriteSheet._surface_from_rect: a surface of the size of rect with that
\* part of the image
_surface_from_rect(rect) == [size |-> <<rect.w, rect.h>>, image |-> rect]

\* SpriteSheet._placeholder_surfaces: one magenta frame
_placeholder_surfaces(sheet_, entity_name, animation_name) ==
    << [size |-> _representative_box_size(sheet_.meta, entity_name), image |-> "placeholder"] >>

\* anim_surfs without the try/except around the metadata lookup
anim_surfs_uncaught(sheet_, name, entity_name) ==
    LET entity == or(entity_name, sheet_.default_entity)
        boxes == animation_boxes(sheet_.meta, name, entity)
    IN  IF boxes.error # None THEN boxes
        ELSE Return([i \in 1..Len(boxes.value) |-> _surface_from_rect(boxes.value[i].rect)])

\* SpriteSheet.anim_surfs
anim_surfs(sheet_, name, entity_name) ==
    LET entity == or(entity_name, sheet_.default_entity)
        boxes == animation_boxes(sheet_.meta, name, entity)
    IN  IF boxes.error = "KeyError"
        THEN Return(_placeholder_surfaces(sheet_, entity, name))
        ELSE IF boxes.error # None THEN boxes
        ELSE Return([i \in 1..Len(boxes.value) |-> _surface_from_rect(boxes.value[i].rect)])

\* --------------------------------------------------------------- animation
\* the names of the clips handed to AnimSprite in Player.__init__
Clips == {"idle", "run", "jump", "fall", "attack", "hurt"}

abs(v) == IF v < 0 THEN -v ELSE v

\* the classification that takes a body walking left for an idle one
state_no_abs(p) ==
    IF ~p.on_ground
    THEN (IF p.vel.y < 0 THEN "jump" ELSE "fall")
    ELSE IF 10 * p.vel.x > Half THEN "run"
    ELSE "idle"

\* Player.update, "visuals": the classification of the tick.  vel.x is in
\* half pixels, the threshold is 0.1 pixel.
state(p) ==
    IF ~p.on_ground
    THEN (IF p.vel.y < 0 THEN "jump" ELSE "fall")
    ELSE IF 10 * abs(p.vel.x) > Half THEN "run"
    ELSE "idle"

\* the AnimSprite of Player.__init__ with its first active clip
AnimSprite(name) == [clip |-> name]

\* AnimSprite.set: name becomes the active clip.  The frame index and its
\* timing, advanced by AnimSprite.update, are not modelled.
set(v, name) == [v EXCEPT !.clip = name]

\* the visuals step that applies every classification
visuals_always_set(v, p) == set(v, state(p))

\* Player.update, "visuals": what the tick does to self.visual
visuals(v, p) == IF state(p) # "fall" THEN set(v, state(p)) ELSE v

\* ------------------------------------------------------------------- levels
\* The solids handed to update, the start_pos handed to Player() and the clips
\* the AnimSprite may start with.  Every Solid is one tile cell, TILE_SIZE
\* square.

\* a ceiling touching the head, the floor under the feet (the body stands on
\* the left end of it) and a wall 4 pixels to the right
Tight ==
    [solids |-> << Rect(96, 54, TILE_SIZE, TILE_SIZE),
                   Rect(96, 145, TILE_SIZE, TILE_SIZE),
                   Rect(104, 97, TILE_SIZE, TILE_SIZE) >>,
     start |-> <<62, 102>>,
     clips |-> {"idle"}]

\* the same with 1 pixel of head room and no wall
Loose ==
    [solids |-> << Rect(96, 52, TILE_SIZE, TILE_SIZE),
                   Rect(96, 144, TILE_SIZE, TILE_SIZE) >>,
     start |-> <<62, 101>>,
     clips |-> {"idle"}]

\* main.py: Player(start_pos=(100, 100)), over a single Solid
Landing ==
    [solids |-> << Rect(100, 148, TILE_SIZE, TILE_SIZE) >>,
     start |-> <<100, 100>>,
     clips |-> {"idle"}]

\* the same with any of the clips as the one the AnimSprite starts with
Falling == [Landing EXCEPT !.clips = Clips]

\* a floor of two Solids between two walls that leave the body 20 pixels of
\* room: wherever a dash carries it, it stays in the pit
Pit ==
    [solids |-> << Rect(52, 148, TILE_SIZE, TILE_SIZE),
                   Rect(100, 148, TILE_SIZE, TILE_SIZE),
                   Rect(42, 100, TILE_SIZE, TILE_SIZE),
                   Rect(148, 100, TILE_SIZE, TILE_SIZE) >>,
     start |-> <<100, 100>>,
     clips |-> {"idle"}]

\* a tilemap with a block two tiles wide and two tiles high that stands on
\* the floor, to the right of the body
BlockMap ==
    << Run(".", 5),
       Run(".", 3) \o Run("X", 2),
       Run(".", 3) \o Run("X", 2),
       Run(".", 2) \o Run("X", 3) >>

\* main.py: level.solids of that tilemap, the body on the floor left of the
\* block
Block ==
    [solids |-> Level(BlockMap).solids,
     start |-> <<100, 101>>,
     clips |-> {"idle"}]

\* ---------------------------------------------------------------- metadata
\* sheetmeta.py.  A mapping (a JSON object, a dict) is a function on its
\* keys.  None is the empty sequence where the value is a tuple or an int
\* in a sequence of its own (image_size, id, a frame_number argument), and
\* the empty mapping for extras: no BoxSpec made by from_mapping or add_box
\* holds an empty dict.
NoDict == [k \in {} |-> None]

\* dict.update
dict_update(d, e) ==
    [k \in DOMAIN d \cup DOMAIN e |-> IF k \in DOMAIN e THEN e[k] ELSE d[k]]

\* the dict without the keys popped from it
without(d, keys) == [k \in DOMAIN d \ keys |-> d[k]]

\* FrameSpec.from_box
FrameSpec_from_box(box) ==
    [x |-> box[1], y |-> box[2], w |-> box[3] - box[1], h |-> box[4] - box[2]]

\* FrameSpec.from_mapping
FrameSpec_from_mapping(data) == [x |-> data.x, y |-> data.y, w |-> data.w, h |-> data.h]

\* FrameSpec.to_mapping
FrameSpec_to_mapping(f) == [x |-> f.x, y |-> f.y, w |-> f.w, h |-> f.h]

\* BoxSpec.from_mapping
BoxSpec_from_mapping(data) ==
    [rect |-> FrameSpec_from_mapping(data.rect),
     entity_name |-> data.entity_name,
     animation_name |-> data.animation_name,
     frame_number |-> data.frame_number,
     id |-> IF "id" \in DOMAIN data THEN <<data.id>> ELSE <<>>,
     extras |-> without(data, {"rect", "entity_name", "animation_name", "frame_number", "id"})]

\* BoxSpec.to_mapping
BoxSpec_to_mapping(b) ==
    LET data == [rect |-> FrameSpec_to_mapping(b.rect),
                 entity_name |-> b.entity_name,
                 animation_name |-> b.animation_name,
                 frame_number |-> b.frame_number]
        with_id == IF b.id # <<>> THEN dict_update(data, [id |-> b.id[1]]) ELSE data
    IN  IF DOMAIN b.extras # {} THEN dict_update(with_id, b.extras) ELSE with_id

\* SpriteSheetMeta.from_mapping
SpriteSheetMeta_from_mapping(data) ==
    [boxes |-> IF "boxes" \in DOMAIN data
               THEN [i \in 1..Len(data.boxes) |-> BoxSpec_from_mapping(data.boxes[i])]
               ELSE <<>>,
     image_path |-> IF "image_path" \in DOMAIN data THEN data.image_path ELSE None,
     image_size |-> IF "image_size" \in DOMAIN data
                    THEN <<data.image_size.w, data.image_size.h>>
                    ELSE <<>>]

\* SpriteSheetMeta.to_mapping
SpriteSheetMeta_to_mapping(m) ==
    LET data == [boxes |-> [i \in 1..Len(m.boxes) |-> BoxSpec_to_mapping(m.boxes[i])]]
        with_path == IF m.image_path # None
                     THEN dict_update(data, [image_path |-> m.image_path])
                     ELSE data
    IN  IF m.image_size # <<>>
        THEN dict_update(with_path, [image_size |-> [w |-> m.image_size[1], h |-> m.image_size[2]]])
        ELSE with_path

\* SpriteSheetMetaBuilder.__init__
SpriteSheetMetaBuilder(default_entity) ==
    [default_entity |-> default_entity,
     boxes |-> <<>>,
     _frame_counts |-> NoDict,
     _next_id |-> 0,
     image_path |-> None,
     image_size |-> <<>>]

\* SpriteSheetMetaBuilder.set_image_info
set_image_info(b, path, size) ==
    [b EXCEPT !.image_path = IF path # None THEN path ELSE @,
              !.image_size = IF size # <<>> THEN size ELSE @]

\* SpriteSheetMetaBuilder.add_box; frame_number is <<>> for None
add_box(b, box, animation_name, entity_name, frame_number, extras) ==
    LET entity == or(entity_name, b.default_entity)
        key == <<entity, animation_name>>
        current == IF key \in DOMAIN b._frame_counts THEN b._frame_counts[key] ELSE 0
        hi(u, v) == IF u < v THEN v ELSE u
        number == IF frame_number = <<>> THEN current ELSE frame_number[1]
        counts == [k \in DOMAIN b._frame_counts \cup {key} |->
                     IF k # key THEN b._frame_counts[k]
                     ELSE IF frame_number = <<>> THEN current + 1
                     ELSE hi(current, frame_number[1] + 1)]
        spec == [rect |-> FrameSpec_from_box(box),
                 entity_name |-> entity,
                 animation_name |-> animation_name,
                 frame_number |-> number,
                 id |-> <<b._next_id>>,
                 extras |-> extras]
    IN  [b EXCEPT !._frame_counts = counts,
                  !._next_id = @ + 1,
                  !.boxes = Append(@, spec)]

\* SpriteSheetMetaBuilder.build: box.scaled(1) copies every box
build(b) == [boxes |-> b.boxes, image_path |-> b.image_path, image_size |-> b.image_size]

\* the mappings handed to SpriteSheetMeta.from_mapping: boxes with and
\* without an id and with and without a key of their own
BoxMappings ==
    LET core == [rect : {[x |-> 0, y |-> 0, w |-> 32, h |-> 32]},
                 entity_name : {"bytebuddy"},
                 animation_name : AnimationNames,
                 frame_number : 0..1]
    IN  UNION {{c, dict_update(c, [id |-> 0]), dict_update(c, [tag |-> "boss"]),
                dict_update(c, [id |-> 3, tag |-> "boss"])} : c \in core}

MetaMappings ==
    LET lists == UNION {[1..n -> BoxMappings] : n \in 0..MaxBoxes}
        heads == {NoDict, [image_path |-> "spritesheet.png"],
                  [image_size |-> [w |-> 64, h |-> 64]],
                  [image_path |-> "spritesheet.png", image_size |-> [w |-> 64, h |-> 64]]}
    IN  {NoDict} \cup {dict_update(h, [boxes |-> l]) : h \in heads, l \in lists}

\* the extras handed to add_box: None, an empty dict, a key of the caller's
\* own, and keys that are fields of the box
Extras == {NoDict, [tag |-> "boss"], [id |-> 7], [entity_name |-> "ghost"]}

\* a builder as the tools make it, no SpriteSheetMeta made of it yet and
\* none read back
NoMeta == [builder |-> SpriteSheetMetaBuilder("bytebuddy"), m |-> <<>>, back |-> <<>>]

\* --------------------------------------------------------- metadata editor
\* cli/sheetmeta_editor.py.  Scene coordinates are floats (QPointF, QRectF);
\* they are kept as integers in sub-pixel units, Half units to the pixel.
\* A value with a fraction stands for any coordinate that is not a whole
\* number of pixels.

\* int(v) of a float held in sub-pixel units: truncation toward zero
int(v) == IF v >= 0 THEN v \div Half ELSE -((-v) \div Half)

QPointF(x, y) == [x |-> x, y |-> y]

\* QRectF(p, q).normalized()
normalized(p, q) ==
    Rect(IF p.x <= q.x THEN p.x ELSE q.x,
         IF p.y <= q.y THEN p.y ELSE q.y,
         abs(q.x - p.x), abs(q.y - p.y))

\* QRectF.intersected, for rectangles of width and height >= 0: a null
\* rectangle (0, 0, 0, 0) when one of them is empty or they do not overlap
intersected(a, b) ==
    LET lo(u, v) == IF u < v THEN u ELSE v
        hi(u, v) == IF u < v THEN v ELSE u
    IN  IF \/ a.w = 0 \/ a.h = 0 \/ b.w = 0 \/ b.h = 0
           \/ a.x >= b.x + b.w \/ b.x >= a.x + a.w
           \/ a.y >= b.y + b.h \/ b.y >= a.y + a.h
        THEN Rect(0, 0, 0, 0)
        ELSE Rect(hi(a.x, b.x), hi(a.y, b.y),
                  lo(a.x + a.w, b.x + b.w) - hi(a.x, b.x),
                  lo(a.y + a.h, b.y + b.h) - hi(a.y, b.y))

\* QRectF.intersects
intersects(a, b) ==
    /\ a.w # 0 /\ a.h # 0 /\ b.w # 0 /\ b.h # 0
    /\ a.x < b.x + b.w /\ b.x < a.x + a.w
    /\ a.y < b.y + b.h /\ b.y < a.y + a.h

\* RectItem.HANDLE_MARGIN and RectItem.MIN_SIZE, in sub-pixel units
HANDLE_MARGIN == 10 * Half

MIN_SIZE == 1 * Half

\* RectItem.__init__ with meta = None.  selected is isSelected().
RectItem(x, y, w, h, box_id) ==
    [box_id |-> box_id,
     pos |-> QPointF(x, y),
     rect |-> Rect(0, 0, w, h),
     meta |-> [entity_name |-> "", animation_name |-> "", frame_number |-> 0],
     selected |-> FALSE,
     _resizing |-> FALSE,
     _resize_edges |-> {},
     _press_pos_local |-> QPointF(0, 0),
     _start_rect |-> Rect(0, 0, 0, 0),
     _start_pos |-> QPointF(0, 0)]

\* RectItem.scene_rect
scene_rect(it) == Rect(it.pos.x, it.pos.y, it.rect.w, it.rect.h)

\* RectItem._hit_test_handles: the Edge flags as a set, Edge.NONE empty
_hit_test_handles(it, p_local) ==
    LET r == it.rect
        x == p_local.x
        y == p_local.y
        m == HANDLE_MARGIN
    IN  (IF -m <= y /\ y <= r.h + m
         THEN (IF abs(x - 0) <= m THEN {"LEFT"} ELSE {})
              \cup (IF abs(x - r.w) <= m THEN {"RIGHT"} ELSE {})
         ELSE {})
        \cup
        (IF -m <= x /\ x <= r.w + m
         THEN (IF abs(y - 0) <= m THEN {"TOP"} ELSE {})
              \cup (IF abs(y - r.h) <= m THEN {"BOTTOM"} ELSE {})
         ELSE {})

\* RectItem.mouseMoveEvent while _resizing, p_local being event.pos()
resize(it, p_local) ==
    LET hi(u, v) == IF u < v THEN v ELSE u
        dx == p_local.x - it._press_pos_local.x
        dy == p_local.y - it._press_pos_local.y
        new_w == IF "LEFT" \in it._resize_edges
                 THEN hi(MIN_SIZE, it._start_rect.w - dx)
                 ELSE IF "RIGHT" \in it._resize_edges
                 THEN hi(MIN_SIZE, it._start_rect.w + dx)
                 ELSE it._start_rect.w
        new_x == IF "LEFT" \in it._resize_edges
                 THEN it._start_pos.x + (it._start_rect.w - new_w)
                 ELSE it._start_pos.x
        new_h == IF "TOP" \in it._resize_edges
                 THEN hi(MIN_SIZE, it._start_rect.h - dy)
                 ELSE IF "BOTTOM" \in it._resize_edges
                 THEN hi(MIN_SIZE, it._start_rect.h + dy)
                 ELSE it._start_rect.h
        new_y == IF "TOP" \in it._resize_edges
                 THEN it._start_pos.y + (it._start_rect.h - new_h)
                 ELSE it._start_pos.y
    IN  [it EXCEPT !.rect = Rect(0, 0, new_w, new_h),
                   !.pos = QPointF(Half * round(new_x), Half * round(new_y))]

\* MainWindow.__init__ with its SpriteView.  items are the RectItems of
\* the scene in the order they were added; box_index maps a box id to the
\* place of its RectItem in items; rows are the ids held by the rows of
\* list_widget and selected the rows that are selected there.  _pixmap_item
\* and _rubber_item are the empty sequence for None and otherwise hold
\* the size of the pixmap and the rectangle of the rubber band; _zoom is
\* the exponent of 1.15.  mouse is what Qt keeps from the press of a button
\* to its release: the button and the modifiers of the press, the mouse
\* grabber (a place in items, 0 for none), whether the view is dragging
\* its own selection band, the scene position of the press and of the
\* last event, and the positions the items had at the press.  inputs counts
\* the user's inputs and event is the last call: the handler, its arguments.
MainWindow ==
    [image_path |-> None,
     box_counter |-> 0,
     box_index |-> <<>>,
     rows |-> <<>>,
     selected |-> {},
     items |-> <<>>,
     _pixmap_item |-> <<>>,
     _drawing |-> FALSE,
     _start_pos |-> QPointF(0, 0),
     _rubber_item |-> <<>>,
     _zoom |-> 0,
     mouse |-> [button |-> None, modifiers |-> None, grabber |-> 0,
                band |-> FALSE, press |-> QPointF(0, 0),
                pos |-> QPointF(0, 0), origin |-> <<>>],
     inputs |-> 0,
     event |-> <<"__init__">>]

\* SpriteView.image_loaded
image_loaded(e) == e._pixmap_item # <<>>

\* MainWindow.get_selected_ids
get_selected_ids(e) == {e.rows[r] : r \in e.selected}

\* MainWindow.get_selected_rect_items, as places in items
get_selected_rect_items(e) ==
    {e.box_index[i] : i \in get_selected_ids(e) \cap DOMAIN e.box_index}

\* MainWindow.sync_selection_from_scene, the slot of scene.selectionChanged
sync_selection_from_scene(e) ==
    LET selected_ids == {e.items[i].box_id : i \in {j \in 1..Len(e.items) : e.items[j].selected}}
    IN  [e EXCEPT !.selected = {r \in 1..Len(e.rows) : e.rows[r] \in selected_ids}]

\* the scene selection becomes the items at the places in sel
setSelected(e, sel) ==
    IF sel = {j \in 1..Len(e.items) : e.items[j].selected}
    THEN e
    ELSE sync_selection_from_scene(
             [e EXCEPT !.items = [i \in 1..Len(e.items) |->
                                    [e.items[i] EXCEPT !.selected = i \in sel]]])

\* MainWindow.on_list_items_selection_changed
on_list_items_selection_changed(e) ==
    setSelected(e, {i \in 1..Len(e.items) : e.items[i].box_id \in get_selected_ids(e)})

\* MainWindow.on_box_created, and the tail of add_new_box: the item gets
\* box_counter as its id, joins the scene, box_index and the list, and
\* becomes the selection (select_box_in_list: setCurrentRow)
on_box_created(e, item) ==
    LET id == e.box_counter
        n == Len(e.items) + 1
    IN  on_list_items_selection_changed(
            [e EXCEPT !.box_counter = id + 1,
                      !.items = Append(@, [item EXCEPT !.box_id = id]),
                      !.box_index = [k \in DOMAIN @ \cup {id} |-> IF k = id THEN n ELSE @[k]],
                      !.rows = Append(@, id),
                      !.selected = {Len(e.rows) + 1}])

\* MainWindow.add_new_box
add_new_box(e) ==
    IF ~image_loaded(e) THEN e
    ELSE on_box_created(e, RectItem(0, 0, 64 * Half, 64 * Half, e.box_counter))

\* the images behind the paths a user may open: the size in pixels of a
\* PNG that loads, nothing for a file that is no image
Pixmaps == [sheet |-> <<[w |-> 96, h |-> 96]>>, broken |-> <<>>]

\* MainWindow.open_image_path with SpriteView.load_image and the slot of
\* image_changed, on_image_changed
open_image_path(e, path) ==
    IF Pixmaps[path] = <<>>
    THEN [e EXCEPT !.image_path = path]
    ELSE [e EXCEPT !.items = <<>>,
                   !._rubber_item = <<>>,
                   !._pixmap_item = Pixmaps[path],
                   !._zoom = 0,
                   !.rows = <<>>,
                   !.selected = {},
                   !.box_index = <<>>,
                   !.box_counter = 0,
                   !.image_path = path]

\* SpriteView.wheelEvent
wheelEvent(e, angle) ==
    IF ~image_loaded(e) THEN e
    ELSE [e EXCEPT !._zoom = IF angle > 0 THEN @ + 1 ELSE @ - 1]

\* MainWindow.on_meta_fields_changed.  The values of changes are whole
\* numbers of pixels and names.
on_meta_fields_changed(e, changes) ==
    LET items == get_selected_rect_items(e)
        rect == IF "rect" \in DOMAIN changes THEN changes.rect ELSE <<>>
        meta(ri) ==
            [entity_name |-> IF "entity_name" \in DOMAIN changes
                             THEN changes.entity_name ELSE ri.meta.entity_name,
             animation_name |-> IF "animation_name" \in DOMAIN changes
                                THEN changes.animation_name ELSE ri.meta.animation_name,
             frame_number |-> IF "frame_number" \in DOMAIN changes
                              THEN changes.frame_number ELSE ri.meta.frame_number]
        x(ri) == IF "x" \in DOMAIN rect THEN rect.x ELSE int(ri.pos.x)
        y(ri) == IF "y" \in DOMAIN rect THEN rect.y ELSE int(ri.pos.y)
        w(ri) == IF "w" \in DOMAIN rect THEN rect.w ELSE int(ri.rect.w)
        h(ri) == IF "h" \in DOMAIN rect THEN rect.h ELSE int(ri.rect.h)
    IN  IF items = {} THEN e
        ELSE [e EXCEPT !.items = [i \in 1..Len(e.items) |->
                 IF i \in items
                 THEN [e.items[i] EXCEPT !.meta = meta(e.items[i]),
                                         !.rect = Rect(0, 0, Half * w(e.items[i]), Half * h(e.items[i])),
                                         !.pos = QPointF(Half * x(e.items[i]), Half * y(e.items[i]))]
                 ELSE e.items[i]]]

\* the RectItem that gets a mouse press at the scene position p: the
\* topmost one whose shape, the rectangle widened by half the pen's width
\* of 2, holds p; 0 if there is none
itemAt(e, p) ==
    LET under == {i \in 1..Len(e.items) :
                     /\ -Half <= p.x - e.items[i].pos.x
                     /\ p.x - e.items[i].pos.x <= e.items[i].rect.w + Half
                     /\ -Half <= p.y - e.items[i].pos.y
                     /\ p.y - e.items[i].pos.y <= e.items[i].rect.h + Half}
    IN  IF under = {} THEN 0 ELSE CHOOSE i \in under : \A j \in under : j <= i

\* event.pos() of an event at the scene position p, for the item at place i
mapFromScene(e, i, p) == QPointF(p.x - e.items[i].pos.x, p.y - e.items[i].pos.y)

\* RectItem.mousePressEvent of the item at place i.  The default handler
\* of a selectable item makes an unselected item the selection on a left
\* press without Ctrl.
item_mousePressEvent(e, i, button, modifiers, p) ==
    LET it == e.items[i]
        edges == _hit_test_handles(it, mapFromScene(e, i, p))
    IN  IF button = "left" /\ edges # {}
        THEN [e EXCEPT !.items[i] =
                 [it EXCEPT !._resizing = TRUE,
                            !._resize_edges = edges,
                            !._press_pos_local = mapFromScene(e, i, p),
                            !._start_rect = it.rect,
                            !._start_pos = it.pos]]
        ELSE IF button = "left" /\ modifiers # "ctrl" /\ ~it.selected
        THEN setSelected(e, {i})
        ELSE e

\* RectItem.mouseMoveEvent of the mouse grabber.  The default handler of a
\* movable item moves the grabber and the selected items by the distance
\* the pointer has gone since the left button went down.
item_mouseMoveEvent(e, p) ==
    LET g == e.mouse.grabber
    IN  IF e.items[g]._resizing
        THEN [e EXCEPT !.items[g] = resize(@, mapFromScene(e, g, p))]
        ELSE IF e.mouse.button = "left"
        THEN [e EXCEPT !.items = [i \in 1..Len(e.items) |->
                 IF i = g \/ e.items[i].selected
                 THEN [e.items[i] EXCEPT !.pos =
                          QPointF(e.mouse.origin[i].x + p.x - e.mouse.press.x,
                                  e.mouse.origin[i].y + p.y - e.mouse.press.y)]
                 ELSE e.items[i]]]
        ELSE e

\* RectItem.mouseReleaseEvent of the mouse grabber.  The default handler
\* of a selectable item settles the selection when the left button comes up
\* where it went down: Ctrl toggles the item, otherwise it becomes the
\* selection.
item_mouseReleaseEvent(e, button) ==
    LET g == e.mouse.grabber
        now == {j \in 1..Len(e.items) : e.items[j].selected}
    IN  IF e.items[g]._resizing /\ button = "left"
        THEN [e EXCEPT !.items[g]._resizing = FALSE, !.items[g]._resize_edges = {}]
        ELSE IF button = "left" /\ e.mouse.pos = e.mouse.press
        THEN setSelected(e, IF e.mouse.modifiers # "ctrl" THEN {g}
                            ELSE IF g \in now THEN now \ {g} ELSE now \cup {g})
        ELSE e

\* SpriteView.mousePressEvent; p is mapToScene(event.pos()).  Without Shift
\* the press goes to the item under the pointer; where there is none a left
\* press starts the selection band of RubberBandDrag, which without a
\* modifier clears the selection.
mousePressEvent(e, button, modifiers, p) ==
    LET m == [button |-> button, modifiers |-> modifiers, grabber |-> itemAt(e, p),
              band |-> FALSE, press |-> p, pos |-> p,
              origin |-> [i \in 1..Len(e.items) |-> e.items[i].pos]]
    IN  IF image_loaded(e) /\ button = "left" /\ modifiers = "shift"
        THEN [e EXCEPT !._drawing = TRUE,
                       !._start_pos = p,
                       !._rubber_item = <<Rect(p.x, p.y, 0, 0)>>,
                       !.mouse = [m EXCEPT !.grabber = 0]]
        ELSE IF itemAt(e, p) # 0
        THEN [item_mousePressEvent(e, itemAt(e, p), button, modifiers, p) EXCEPT !.mouse = m]
        ELSE IF button = "left"
        THEN [(IF modifiers = "none" THEN setSelected(e, {}) ELSE e)
                 EXCEPT !.mouse = [m EXCEPT !.band = TRUE]]
        ELSE [e EXCEPT !.mouse = m]

\* SpriteView.mouseMoveEvent with a button down.  The selection band
\* selects the items it touches, in addition to the selection when the
\* press had a modifier.
mouseMoveEvent(e, p) ==
    LET band == normalized(e.mouse.press, p)
        touched == {i \in 1..Len(e.items) : intersects(scene_rect(e.items[i]), band)}
        now == {j \in 1..Len(e.items) : e.items[j].selected}
        moved == [e EXCEPT !.mouse.pos = p]
    IN  IF e._drawing /\ e._rubber_item # <<>>
        THEN [moved EXCEPT !._rubber_item = <<normalized(e._start_pos, p)>>]
        ELSE IF e.mouse.grabber # 0
        THEN item_mouseMoveEvent(moved, p)
        ELSE IF e.mouse.band
        THEN setSelected(moved, IF e.mouse.modifiers = "none" THEN touched
                                ELSE now \cup touched)
        ELSE moved

\* SpriteView.mouseReleaseEvent
mouseReleaseEvent(e, button) ==
    LET rect == IF e._rubber_item # <<>> THEN e._rubber_item[1] ELSE Rect(0, 0, 0, 0)
        img_rect == Rect(0, 0, Half * e._pixmap_item[1].w, Half * e._pixmap_item[1].h)
        box == intersected(rect, img_rect)
        up == [e EXCEPT !.mouse = MainWindow.mouse]
    IN  IF e._drawing /\ button = "left"
        THEN (IF rect.w >= 1 * Half /\ rect.h >= 1 * Half
              THEN on_box_created([up EXCEPT !._drawing = FALSE, !._rubber_item = <<>>],
                                  RectItem(box.x, box.y, box.w, box.h, -1))
              ELSE [up EXCEPT !._drawing = FALSE, !._rubber_item = <<>>])
        ELSE IF e.mouse.grabber # 0
        THEN [item_mouseReleaseEvent(e, button) EXCEPT !.mouse = MainWindow.mouse]
        ELSE up

\* the scene positions the pointer is at when an event arrives: whole
\* pixels under the identity transform, any position once the view is zoomed
Pixels ==
    {QPointF( 4 * Half,  32 * Half), QPointF( 32 * Half,  32 * Half),
     QPointF(80 * Half,  80 * Half), QPointF(110 * Half,  80 * Half),
     QPointF(130 * Half, 110 * Half)}

SubPixels == {QPointF(40 * Half + 1, 40 * Half + 1)}

mapToScene(e) == IF e._zoom = 0 THEN Pixels ELSE Pixels \cup SubPixels

\* the payloads of MetadataPanel.fields_changed: one edited field each
Changes ==
    {[entity_name |-> "orc"], [animation_name |-> "run"], [frame_number |-> 3],
     [rect |-> [x |-> 12]], [rect |-> [y |-> 7]],
     [rect |-> [w |-> 20]], [rect |-> [h |-> 64]]}

Buttons == {"left", "right"}

Modifiers == {"none", "shift", "ctrl"}

\* SpriteView.load_image with the slot of image_changed, on_image_changed:
\* a file that is no image leaves the view and the window as they are
load_image(e, path) ==
    IF Pixmaps[path] = <<>>
    THEN e
    ELSE [e EXCEPT !.items = <<>>,
                   !._rubber_item = <<>>,
                   !._pixmap_item = Pixmaps[path],
                   !._zoom = 0,
                   !.rows = <<>>,
                   !.selected = {},
                   !.box_index = <<>>,
                   !.box_counter = 0]

\* the files a user may drop on the window: the images, and a file whose
\* name does not end in .png
Dropped == DOMAIN Pixmaps \cup {"notes"}

\* MainWindow.dropEvent for one dropped file
dropEvent(e, local) ==
    IF local \in DOMAIN Pixmaps
    THEN [load_image(e, local) EXCEPT !.image_path = local]
    ELSE e

\* MainWindow.delete_selected_box, reply being the answer to the question
\* box.  Every row that holds a selected id is taken, and box_index.pop
\* gives the RectItem to remove from the scene the first time an id is met;
\* the places of the RectItems left move down.  The rows taken were the
\* selected ones, and itemSelectionChanged runs
\* on_list_items_selection_changed.
delete_selected_box(e, reply) ==
    LET selected_ids == get_selected_ids(e)
        popped == {e.box_index[k] : k \in selected_ids \cap DOMAIN e.box_index}
        keep == (1..Len(e.items)) \ popped
        place(p) == Cardinality({q \in keep : q <= p})
        left == {r \in 1..Len(e.rows) : e.rows[r] \notin selected_ids}
        nth(S, i) == CHOOSE p \in S : Cardinality({q \in S : q <= p}) = i
    IN  IF selected_ids = {} \/ reply # "Yes"
        THEN e
        ELSE on_list_items_selection_changed(
                 [e EXCEPT !.items = [i \in 1..Cardinality(keep) |-> e.items[nth(keep, i)]],
                           !.box_index = [k \in DOMAIN @ \ selected_ids |-> place(@[k])],
                           !.rows = [i \in 1..Cardinality(left) |-> e.rows[nth(left, i)]],
                           !.selected = {}])

\* rect_to_dict, of a rectangle in sub-pixel units
rect_to_dict(r) == [x |-> int(r.x), y |-> int(r.y), w |-> int(r.w), h |-> int(r.h)]

\* the data save_metadata writes.  sorted is stable and scene.items() gives
\* the RectItems from the top of the stack down, the last one added first.
save_data(e) ==
    LET before(p, q) ==
            \/ e.items[p].box_id < e.items[q].box_id
            \/ e.items[p].box_id = e.items[q].box_id /\ p > q
        at(i) == CHOOSE p \in 1..Len(e.items) :
                    Cardinality({q \in 1..Len(e.items) : before(q, p)}) = i - 1
        box(it) == [id |-> it.box_id,
                    rect |-> rect_to_dict(scene_rect(it)),
                    entity_name |-> it.meta.entity_name,
                    animation_name |-> it.meta.animation_name,
                    frame_number |-> it.meta.frame_number]
    IN  [image_path |-> IF e.image_path # None THEN e.image_path ELSE "",
         image_size |-> e._pixmap_item[1],
         boxes |-> [i \in 1..Len(e.items) |-> box(e.items[at(i)])]]

\* MainWindow.save_metadata, path being the file chosen in the dialog and
\* "" a dialog that was cancelled: the files after the call
save_metadata(e, fs, path) ==
    IF ~image_loaded(e) \/ path = ""
    THEN fs
    ELSE dict_update(fs, [k \in {path} |-> save_data(e)])

\* dict.get
get(d, k, default) == IF k \in DOMAIN d THEN d[k] ELSE default

\* the body of the loop of load_metadata_path for the box b of the file,
\* once its box_id is known
load_item(e, b, box_id) ==
    LET r == get(b, "rect", [x |-> 0, y |-> 0, w |-> 1, h |-> 1])
        item == [RectItem(Half * r.x, Half * r.y, Half * r.w, Half * r.h, box_id)
                   EXCEPT !.meta = [entity_name |-> get(b, "entity_name", ""),
                                    animation_name |-> get(b, "animation_name", ""),
                                    frame_number |-> get(b, "frame_number", 0)]]
        place == Len(e.items) + 1
    IN  [e EXCEPT !.box_counter = IF @ < box_id + 1 THEN box_id + 1 ELSE @,
                  !.items = Append(@, item),
                  !.box_index = [k \in DOMAIN @ \cup {box_id} |->
                                   IF k = box_id THEN place ELSE @[k]],
                  !.rows = Append(@, box_id)]

\* a loop body that numbers the boxes itself and ignores the ids of the file
load_box_counted(e, b) == load_item(e, b, e.box_counter)

\* the body of the loop of load_metadata_path
load_box(e, b) == load_item(e, b, get(b, "id", e.box_counter))

\* the loop of load_metadata_path over the first n boxes of the file
RECURSIVE load_boxes(_, _, _)
load_boxes(e, boxes, n) ==
    IF n = 0 THEN e ELSE load_box(load_boxes(e, boxes, n - 1), boxes[n])

\* MainWindow.load_metadata_path: fs are the files, a path that is not
\* among them cannot be read.  os.path.exists holds of the image files.
load_metadata_path(e, fs, path) ==
    IF path = "" \/ path \notin DOMAIN fs
    THEN e
    ELSE LET data == fs[path]
             img_path == IF "image_path" \in DOMAIN data THEN data.image_path ELSE ""
             found == img_path # "" /\ img_path \in DOMAIN Pixmaps
             shown == IF found
                      THEN [load_image(e, img_path) EXCEPT !.image_path = img_path]
                      ELSE e
             boxes == IF "boxes" \in DOMAIN data THEN data.boxes ELSE <<>>
         IN  IF ~found /\ ~image_loaded(e)
             THEN e
             ELSE load_boxes([shown EXCEPT !.items = <<>>,
                                           !.rows = <<>>,
                                           !.selected = {},
                                           !.box_index = <<>>,
                                           !.box_counter = 0],
                             boxes, Len(boxes))

\* the metadata files written by hand that a user may load: boxes with
\* ids of their own, a box without an id before one with an id, and a file
\* without boxes that names an image that is gone
Files ==
    [ids |-> [image_path |-> "sheet",
              image_size |-> [w |-> 96, h |-> 96],
              boxes |-> << [id |-> 3,
                            rect |-> [x |-> 8, y |-> 8, w |-> 16, h |-> 16],
                            entity_name |-> "orc",
                            animation_name |-> "run",
                            frame_number |-> 1],
                           [id |-> 1,
                            rect |-> [x |-> 40, y |-> 8, w |-> 16, h |-> 16]] >>],
     mixed |-> [boxes |-> << [rect |-> [x |-> 8, y |-> 8, w |-> 16, h |-> 16]],
                             [id |-> 0,
                              rect |-> [x |-> 40, y |-> 8, w |-> 16, h |-> 16],
                              entity_name |-> "orc"] >>],
     gone |-> [image_path |-> "gone"]]

\* the rectangles a user draws: one on whole pixels, one between them
Drawn ==
    {RectItem(8 * Half, 8 * Half, 16 * Half, 16 * Half, -1),
     RectItem(40 * Half + 1, 40 * Half + 1, 16 * Half + 1, 16 * Half, -1)}

\* ------------------------------------------------------------------- state
VARIABLES
    player,     \* the Player object of main()
    solids,     \* level.solids
    ticks,      \* number of update calls so far
    presses,    \* number of queue_jump and of queue_dash calls so far
    last,       \* what the last update did
    air,        \* since the last update that ended grounded: jumps, elapsed time
    rest,       \* length of the run of updates since the body came to rest, 0 if none
    dash,       \* number of dashes performed so far, the tick time since the
                \* last queue_dash: exact up to DASH_BUFFER_TIME, one more than
                \* that for anything longer and while there has been no call,
                \* and the number of updates since the last dash was performed:
                \* exact up to DecayTicks, one more for anything longer and
                \* while there has been none
    visual,     \* player.visual, the AnimSprite: its active clip
    loop,       \* main(): where the loop is, the events fetched and not yet
                \* handled, running, and the number of frames drawn
    level,      \* the TILEMAP and the Level built from it
    sheet,      \* a SpriteSheet, the last call of anim_surfs and its outcome
    editor,     \* the MainWindow of the metadata editor
    meta,       \* a SpriteSheetMetaBuilder, the SpriteSheetMeta made by it or by
                \* from_mapping, and that metadata written and read back
    files       \* the metadata files on disk: path to JSON data

vars == << player, solids, ticks, presses, last, air, rest, dash, visual, loop, level, sheet, editor, meta, files >>

\* the body stands on top of a Solid
on_top(p, sol) ==
    \E i \in 1..Len(sol) :
        /\ p.rect.y + p.rect.h = sol[i].y
        /\ p.rect.x < sol[i].x + sol[i].w
        /\ sol[i].x < p.rect.x + p.rect.w

\* resting on top of a Solid with zero velocity and nothing queued
at_rest(p, sol) ==
    /\ on_top(p, sol)
    /\ p.vel.x = 0 /\ p.vel.y = 0
    /\ p.jump_buffer_timer <= 0
    /\ p.dash_buffer_timer <= 0

\* the Player of a scenario and the loop before its first pass
InitPlayer(sc) ==
    /\ player = NewPlayer(sc.start)
    /\ solids = sc.solids
    /\ ticks = 0
    /\ presses = [jump |-> 0, dash |-> 0]
    /\ last = [mid |-> NewPlayer(sc.start), landed |-> FALSE, hit_x |-> FALSE,
               hit_y |-> FALSE, jumped |-> FALSE, dashed |-> FALSE, held |-> FALSE,
               coyote |-> 0, state |-> "idle"]
    /\ air = [jumps |-> 0, time |-> COYOTE_TIME]
    /\ rest = [still |-> 0, idle |-> 0]
    /\ dash = [count |-> 0, since |-> DASH_BUFFER_TIME + 1, ticks |-> DecayTicks + 1]
    /\ visual \in {AnimSprite(name) : name \in sc.clips}
    /\ loop = [pc |-> "top", pending |-> <<>>, running |-> TRUE, frames |-> 0, fetched |-> 0]
    /\ editor = MainWindow
    /\ meta = NoMeta
    /\ files = Files

\* a scenario hands its solids to update directly: no tilemap is involved
InitWith(sc) == InitPlayer(sc) /\ level = NoLevel(<<>>) /\ sheet = SpriteSheet(<<>>)

Init == InitWith(Tight)

InitLoose == InitWith(Loose)

InitLanding == InitWith(Landing)

InitFalling == InitWith(Falling)

InitBlock == InitWith(Block)

InitPit == InitWith(Pit)

\* main: the call player.queue_jump()
CallQueueJump ==
    /\ player' = queue_jump(player)
    /\ presses' = [presses EXCEPT !.jump = @ + 1]
    /\ rest' = [still |-> 0, idle |-> 0]
    /\ UNCHANGED << solids, ticks, last, air, dash, visual, level, sheet, editor, meta, files >>

\* main: the call player.queue_dash()
CallQueueDash ==
    /\ player' = queue_dash(player)
    /\ presses' = [presses EXCEPT !.dash = @ + 1]
    /\ rest' = [still |-> 0, idle |-> 0]
    /\ dash' = [dash EXCEPT !.since = 0]
    /\ UNCHANGED << solids, ticks, last, air, visual, level, sheet, editor, meta, files >>

\* main: event.key in (K_SPACE, K_w, K_UP)
QueueJump ==
    /\ presses.jump + presses.dash < MaxPresses
    /\ CallQueueJump
    /\ UNCHANGED loop

\* main: event.key in (K_s, K_DOWN)
QueueDash ==
    /\ presses.jump + presses.dash < MaxPresses
    /\ CallQueueDash
    /\ UNCHANGED loop

\* the call player.update(keys, level.solids, dt) with a dt out of dts.  t,
\* h and mid are the body before move_and_collide, after its horizontal
\* part and before the consumption step.
Tick(dts) ==
    /\ \E keys \in Keys, dt \in dts :
      \E t \in {before_move(player, keys, dt)} :
      \E h \in {horizontal(t, solids)} :
      \E mid \in {before_consume(player, keys, solids, dt)} :
      \E new \in {update(player, keys, solids, dt)} :
        LET hit_x == overlaps([t.rect EXCEPT !.x = round(t.pos.x + t.vel.x)], solids)
            hit_y == overlaps([h.rect EXCEPT !.y = round(h.pos.y + h.vel.y)], solids)
            jumped == new.jumps # player.jumps
            quiet == ~keys.left /\ ~keys.right
            min(a, b) == IF a < b THEN a ELSE b
            count(n, start) == IF n > 0 /\ quiet THEN n + 1
                               ELSE IF start THEN 1 ELSE 0
        IN  /\ player' = new
            /\ last' = [mid |-> mid,
                        coyote |-> t.coyote_timer,
                        state |-> state(new),
                        landed |-> hit_y /\ t.vel.y > 0,
                        hit_x |-> hit_x,
                        hit_y |-> hit_y,
                        jumped |-> jumped,
                        dashed |-> new.acceleration # mid.acceleration,
                        held |-> /\ player.jump_buffer_timer > 0
                                 /\ ~player.on_ground
                                 /\ player.coyote_timer <= 0
                                 /\ player.jumps >= 2]
            /\ air' = LET n == (IF mid.on_ground THEN 0 ELSE air.jumps)
                               + (IF jumped THEN 1 ELSE 0)
                      IN  [jumps |-> n,
                           time |-> IF mid.on_ground THEN 0
                                    ELSE IF n > 0 THEN COYOTE_TIME
                                    ELSE min(air.time + dt, COYOTE_TIME)]
            /\ rest' = [still |-> count(rest.still, at_rest(new, solids)),
                        idle |-> count(rest.idle, at_rest(new, solids) /\ new.acceleration = 0)]
            /\ dash' = [count |-> dash.count + (IF new.acceleration # mid.acceleration
                                                 THEN 1 ELSE 0),
                        since |-> min(dash.since + dt, DASH_BUFFER_TIME + 1),
                        ticks |-> IF new.acceleration # mid.acceleration THEN 0
                                  ELSE min(dash.ticks + 1, DecayTicks + 1)]
            /\ visual' = visuals(visual, new)
    /\ ticks' = ticks + 1
    /\ UNCHANGED << solids, presses, level, sheet, editor, meta, files >>

\* main: the call player.update(keys, level.solids, dt)
CallUpdate(dts) == ticks < MaxTicks /\ Tick(dts)

\* main: keys = pygame.key.get_pressed(); player.update(keys, level.solids, dt)
Update == CallUpdate(DTs) /\ UNCHANGED loop

Next == QueueJump \/ QueueDash \/ Update

\* the same call for as long as a dash takes to die out, and longer
UpdateLong == ticks < MaxLongTicks /\ Tick(LagDTs) /\ UNCHANGED loop

NextLong == QueueDash \/ UpdateLong

\* the same call in a frame that took long
UpdateLag == CallUpdate(LagDTs) /\ UNCHANGED loop

NextLag == QueueJump \/ QueueDash \/ UpdateLag

Spec == Init /\ [][Next]_vars

SpecLoose == InitLoose /\ [][Next]_vars

SpecLanding == InitLanding /\ [][Next]_vars

SpecFalling == InitFalling /\ [][Next]_vars

SpecBlock == InitBlock /\ [][Next]_vars

SpecLag == InitLanding /\ [][NextLag]_vars

SpecLong == InitPit /\ [][NextLong]_vars

\* ------------------------------------------------------- level construction
\* main: level = Level(platform_color=...), for the TILEMAP of level.py and
\* for every small tilemap
InitLevel ==
    /\ InitPlayer(Landing)
    /\ level \in {NoLevel(m) : m \in Tilemaps \cup {TILEMAP}}
    /\ sheet = SpriteSheet(<<>>)

LevelInit ==
    /\ ~level.built
    /\ level' = Level(level.tilemap)
    /\ UNCHANGED << player, solids, ticks, presses, last, air, rest, dash, visual, loop, sheet, editor, meta, files >>

LevelNext == LevelInit

SpecLevel == InitLevel /\ [][LevelNext]_vars

\* -------------------------------------------------------------- sheet loading
\* The names a caller may ask for: those of the metadata and others.
NameArgs == AnimationNames \cup {"attack"}

EntityArgs == EntityNames \cup {"ghost", "", None}

\* Player.__init__: sheet = SpriteSheet(paths["sheet"], paths["meta"]), for
\* any metadata
InitSheet ==
    /\ InitPlayer(Landing)
    /\ level = NoLevel(<<>>)
    /\ sheet \in {SpriteSheet(m) : m \in Metas}

\* Player.__init__: sheet.anim_surfs(name, entity_name=...)
AnimSurfs ==
    /\ sheet.call = <<>>
    /\ \E name \in NameArgs, entity_name \in EntityArgs :
        sheet' = [sheet EXCEPT !.call = <<name, entity_name>>,
                               !.out = anim_surfs(sheet, name, entity_name)]
    /\ UNCHANGED << player, solids, ticks, presses, last, air, rest, dash, visual, loop, level, editor, meta, files >>

SheetNext == AnimSurfs

SpecSheet == InitSheet /\ [][SheetNext]_vars

\* ---------------------------------------------------------------- main loop
\* main(), one step per statement group of the loop.  An event is a QUIT or
\* Escape ("quit"), a jump key, a dash key, or anything else ("other": the
\* zoom keys and the events the loop ignores).
Events == {"quit", "jump", "dash", "other"}

body == << player, solids, ticks, presses, last, air, rest, dash, visual, level, sheet, editor, meta, files >>

\* the number of jump and dash key presses among the events q
RECURSIVE keydowns(_)
keydowns(q) ==
    IF q = <<>> THEN 0
    ELSE (IF Head(q) \in {"jump", "dash"} THEN 1 ELSE 0) + keydowns(Tail(q))

\* while running: dt = clock.tick(FPS); pygame.event.get() hands over the
\* events that arrived since the last frame
MainFetch ==
    /\ loop.pc = "top"
    /\ loop.running
    /\ loop.frames < MaxFrames
    /\ \E n \in 0..MaxEvents : \E q \in [1..n -> Events] :
        /\ presses.jump + presses.dash + keydowns(q) <= MaxPresses
        /\ loop' = [loop EXCEPT !.pc = "events", !.pending = q,
                                !.fetched = @ + keydowns(q)]
    /\ UNCHANGED body

\* one pass of "for event in pygame.event.get()"
MainEvent ==
    /\ loop.pc = "events"
    /\ loop.pending # <<>>
    /\ \/ /\ Head(loop.pending) = "quit"
          /\ loop' = [loop EXCEPT !.pending = Tail(@), !.running = FALSE]
          /\ UNCHANGED body
       \/ /\ Head(loop.pending) = "jump"
          /\ CallQueueJump
          /\ loop' = [loop EXCEPT !.pending = Tail(@)]
       \/ /\ Head(loop.pending) = "dash"
          /\ CallQueueDash
          /\ loop' = [loop EXCEPT !.pending = Tail(@)]
       \/ /\ Head(loop.pending) = "other"
          /\ loop' = [loop EXCEPT !.pending = Tail(@)]
          /\ UNCHANGED body

\* the update called inside the for loop, once per event and once after it
MainUpdateInFor ==
    /\ loop.pc = "events"
    /\ CallUpdate(DTs)
    /\ loop' = [loop EXCEPT !.pc = IF loop.pending = <<>> THEN "draw" ELSE "events"]

\* after the for loop: keys = pygame.key.get_pressed(); player.update(...)
MainUpdate ==
    /\ loop.pc = "events"
    /\ loop.pending = <<>>
    /\ CallUpdate(DTs)
    /\ loop' = [loop EXCEPT !.pc = "draw"]

\* the camera, the drawing and pygame.display.flip()
MainDraw ==
    /\ loop.pc = "draw"
    /\ loop' = [loop EXCEPT !.pc = "top", !.frames = @ + 1]
    /\ UNCHANGED body

\* running is False at the loop test: pygame.quit()
MainQuit ==
    /\ loop.pc = "top"
    /\ ~loop.running
    /\ loop' = [loop EXCEPT !.pc = "done"]
    /\ UNCHANGED body

MainNext == MainFetch \/ MainEvent \/ MainUpdate \/ MainDraw \/ MainQuit

SpecMain == InitLanding /\ [][MainNext]_vars

\* ------------------------------------------------------- metadata round trip
\* A SpriteSheetMeta is made, by from_mapping or by a builder, and is then
\* written to a mapping and read back.
others == << player, solids, ticks, presses, last, air, rest, dash, visual, loop, level, sheet, editor, files >>

\* m = SpriteSheetMeta.from_mapping(data)
FromMapping ==
    /\ meta = NoMeta
    /\ \E data \in MetaMappings :
        meta' = [meta EXCEPT !.m = <<SpriteSheetMeta_from_mapping(data)>>]
    /\ UNCHANGED others

\* builder.set_image_info(path=..., size=...), once
SetImageInfo ==
    /\ meta.m = <<>>
    /\ meta.builder.image_path = None /\ meta.builder.image_size = <<>>
    /\ \E path \in {None, "spritesheet.png"}, size \in {<<>>, <<64, 64>>} :
        /\ path # None \/ size # <<>>
        /\ meta' = [meta EXCEPT !.builder = set_image_info(@, path, size)]
    /\ UNCHANGED others

\* builder.add_box(box, animation_name=..., entity_name=..., frame_number=...,
\* extras=...)
AddBox ==
    /\ meta.m = <<>>
    /\ Len(meta.builder.boxes) < MaxBoxes
    /\ \E animation_name \in AnimationNames, entity_name \in {None, "slime"},
          frame_number \in {<<>>, <<0>>, <<1>>}, extras \in Extras :
        meta' = [meta EXCEPT !.builder =
                    add_box(@, <<0, 0, 32, 32>>, animation_name, entity_name,
                            frame_number, extras)]
    /\ UNCHANGED others

\* m = builder.build()
Build ==
    /\ meta.m = <<>>
    /\ meta.builder # NoMeta.builder
    /\ meta' = [meta EXCEPT !.m = <<build(meta.builder)>>]
    /\ UNCHANGED others

\* SpriteSheetMeta.from_mapping(m.to_mapping())
RoundTrip ==
    /\ meta.m # <<>>
    /\ meta.back = <<>>
    /\ meta' = [meta EXCEPT !.back =
                    <<SpriteSheetMeta_from_mapping(SpriteSheetMeta_to_mapping(meta.m[1]))>>]
    /\ UNCHANGED others

MetaNext == FromMapping \/ SetImageInfo \/ AddBox \/ Build \/ RoundTrip

SpecMeta == Init /\ [][MetaNext]_vars

\* ------------------------------------------------------------ editor inputs
\* The editor's window on its own: the game does not run.
game == << player, solids, ticks, presses, last, air, rest, dash, visual, loop, level, sheet, meta >>

\* the call has run on one more input
handled(e, call) == [e EXCEPT !.inputs = @ + 1, !.event = call]

\* no mouse button is down
idle(e) == e.mouse.button = None

\* File > Open PNG, or a PNG dropped on the window
OpenImage ==
    /\ editor.inputs < MaxInputs
    /\ idle(editor)
    /\ \E path \in DOMAIN Pixmaps :
        editor' = handled(open_image_path(editor, path), <<"open_image_path", path>>)
    /\ UNCHANGED << game, files >>

\* the Add Box button
AddNewBox ==
    /\ editor.inputs < MaxInputs
    /\ idle(editor)
    /\ editor' = handled(add_new_box(editor), <<"add_new_box">>)
    /\ UNCHANGED << game, files >>

\* the user changes the selection of list_widget: itemSelectionChanged
SelectRows ==
    /\ editor.inputs < MaxInputs
    /\ idle(editor)
    /\ \E rows \in SUBSET (1..Len(editor.rows)) :
        /\ rows # editor.selected
        /\ editor' = handled(on_list_items_selection_changed([editor EXCEPT !.selected = rows]),
                             <<"on_list_items_selection_changed">>)
    /\ UNCHANGED << game, files >>

\* the user finishes editing a field of the panel: fields_changed
MetaFieldsChanged ==
    /\ editor.inputs < MaxInputs
    /\ idle(editor)
    /\ \E changes \in Changes :
        editor' = handled(on_meta_fields_changed(editor, changes),
                          <<"on_meta_fields_changed", changes>>)
    /\ UNCHANGED << game, files >>

\* the mouse wheel over the view
Wheel ==
    /\ editor.inputs < MaxInputs
    /\ idle(editor)
    /\ \E angle \in {-120, 120} :
        editor' = handled(wheelEvent(editor, angle), <<"wheelEvent", angle>>)
    /\ UNCHANGED << game, files >>

\* a mouse button goes down over the view, one button at a time
MousePress ==
    /\ editor.inputs < MaxInputs
    /\ idle(editor)
    /\ \E button \in Buttons, modifiers \in Modifiers, p \in mapToScene(editor) :
        editor' = handled(mousePressEvent(editor, button, modifiers, p),
                          <<"mousePressEvent", button, modifiers, p>>)
    /\ UNCHANGED << game, files >>

\* the pointer moves with the button down; without one the view and the
\* items only change cursors and pens
MouseMove ==
    /\ editor.inputs < MaxInputs
    /\ ~idle(editor)
    /\ \E p \in mapToScene(editor) \ {editor.mouse.pos} :
        editor' = handled(mouseMoveEvent(editor, p), <<"mouseMoveEvent", p>>)
    /\ UNCHANGED << game, files >>

\* the button comes up where the pointer is
MouseRelease ==
    /\ editor.inputs < MaxInputs
    /\ ~idle(editor)
    /\ editor' = handled(mouseReleaseEvent(editor, editor.mouse.button),
                      <<"mouseReleaseEvent", editor.mouse.button>>)
    /\ UNCHANGED << game, files >>

EditorNext ==
    \/ OpenImage \/ AddNewBox \/ SelectRows \/ MetaFieldsChanged
    \/ Wheel \/ MousePress \/ MouseMove \/ MouseRelease

SpecEditor == Init /\ [][EditorNext]_vars

\* ------------------------------------------------------------ editor files
\* The editor's window with the files it reads and writes: boxes are added,
\* drawn and deleted, images are opened and dropped, metadata is saved and
\* loaded.  The mouse stays up.
DropFile ==
    /\ editor.inputs < MaxCalls
    /\ idle(editor)
    /\ \E local \in Dropped :
        editor' = handled(dropEvent(editor, local), <<"dropEvent", local>>)
    /\ UNCHANGED << game, files >>

\* File > Open PNG
OpenFile ==
    /\ editor.inputs < MaxCalls
    /\ OpenImage

\* the Add Box button
AddBoxButton ==
    /\ editor.inputs < MaxCalls
    /\ AddNewBox

\* the user changes the selection of list_widget
SelectBoxes ==
    /\ editor.inputs < MaxCalls
    /\ SelectRows

\* box_created, the signal of the release that ends a Shift drag over the
\* image, runs on_box_created
BoxCreated ==
    /\ editor.inputs < MaxCalls
    /\ idle(editor)
    /\ image_loaded(editor)
    /\ \E item \in Drawn :
        editor' = handled(on_box_created(editor, item), <<"on_box_created", scene_rect(item)>>)
    /\ UNCHANGED << game, files >>

\* the Delete key or the Delete button, and the answer to the question box
DeleteSelectedBox ==
    /\ editor.inputs < MaxCalls
    /\ idle(editor)
    /\ \E reply \in {"Yes", "No"} :
        editor' = handled(delete_selected_box(editor, reply), <<"delete_selected_box", reply>>)
    /\ UNCHANGED << game, files >>

\* File > Save Metadata, and the file chosen in the dialog
SaveMetadata ==
    /\ editor.inputs < MaxCalls
    /\ idle(editor)
    /\ \E path \in {"", "metadata"} :
        /\ files' = save_metadata(editor, files, path)
        /\ editor' = handled(editor, <<"save_metadata", path>>)
    /\ UNCHANGED game

\* File > Load Metadata, and the file chosen in the dialog
LoadMetadata ==
    /\ editor.inputs < MaxCalls
    /\ idle(editor)
    /\ \E path \in DOMAIN files \cup {""} :
        editor' = handled(load_metadata_path(editor, files, path), <<"load_metadata_path", path>>)
    /\ UNCHANGED << game, files >>

FilesNext ==
    \/ OpenFile \/ DropFile \/ AddBoxButton \/ BoxCreated \/ SelectBoxes
    \/ DeleteSelectedBox \/ SaveMetadata \/ LoadMetadata

SpecFiles == Init /\ [][FilesNext]_vars

\* ------------------------------------------------------------- properties
\* the step is an update
Ticked == ticks' = ticks + 1

\* the dt of a frame at FPS = 60, in milliseconds
FrameDt == 16

\* C1: the buffered jump is consumed in a tick if and only if, after the
\* timers were decremented and move_and_collide has run, jump_buffer_timer > 0
\* and (on_ground or coyote_timer > 0 or jumps < 2).  A consumption ends the
\* tick with vel.y = JUMP_VEL, on_ground false, both timers 0 and jumps one
\* higher; without it the consumption step leaves these five fields alone.
C1_JumpConsumption ==
    [][Ticked =>
        LET m == last'.mid
            p == player'
        IN  /\ last'.jumped <=>
                   /\ m.jump_buffer_timer > 0
                   /\ (m.on_ground \/ m.coyote_timer > 0 \/ m.jumps < 2)
            /\ last'.jumped =>
                   /\ p.vel.y = JUMP_VEL
                   /\ p.on_ground = FALSE
                   /\ p.coyote_timer = 0
                   /\ p.jump_buffer_timer = 0
                   /\ p.jumps = m.jumps + 1
                   /\ m.jumps = player.jumps
            /\ ~last'.jumped =>
                   /\ p.vel.y = m.vel.y
                   /\ p.on_ground = m.on_ground
                   /\ p.coyote_timer = m.coyote_timer
                   /\ p.jump_buffer_timer = m.jump_buffer_timer
                   /\ p.jumps = m.jumps]_vars

\* a jump consumed on the ground by a body that has used both jumps
C1_Witness ==
    /\ last.jumped
    /\ last.mid.on_ground
    /\ last.mid.jumps >= 2
    /\ player.jumps = last.mid.jumps + 1

\* C2: with jumps = 2 after two consumptions since the body was last
\* grounded, a third queue_jump followed by an update in which the body is
\* still airborne performs no jump: vel.y is the one move_and_collide left
\* (gravity, or 0 under a ceiling), not JUMP_VEL, and jumps stays 2.
C2_DoubleJumpCap ==
    [][(/\ Ticked
        /\ air.jumps = 2
        /\ player.jumps = 2
        /\ player.jump_buffer_timer = JUMP_BUFFER_TIME
        /\ ~last'.mid.on_ground)
       => /\ player'.jumps = 2
          /\ player'.vel.y # JUMP_VEL
          /\ player'.vel.y \in {player.vel.y + GRAVITY, 0}
          /\ ~last'.jumped]_vars

\* the third press was made in the air and the update left it unconsumed
C2_Witness ==
    /\ air.jumps = 2
    /\ player.jumps = 2
    /\ presses.jump = 3
    /\ ~last.jumped
    /\ ~last.mid.on_ground
    /\ player.jump_buffer_timer \in 1..(JUMP_BUFFER_TIME - 1)

\* C3: grounded with jumps = 0, queue_jump and then one update at frame-rate
\* dt ends the tick with vel.y = JUMP_VEL, on_ground false and jumps = 1.
C3_GroundedJump ==
    [][(/\ Ticked
        /\ player.on_ground
        /\ player.jumps = 0
        /\ player.jump_buffer_timer = JUMP_BUFFER_TIME
        /\ last'.mid.jump_buffer_timer = JUMP_BUFFER_TIME - FrameDt)
       => /\ player'.vel.y = JUMP_VEL
          /\ player'.on_ground = FALSE
          /\ player'.jumps = 1]_vars

\* the first jump, taken from the ground in the tick after the press
C3_Witness ==
    /\ ticks >= 2
    /\ last.jumped
    /\ last.mid.on_ground
    /\ last.mid.jumps = 0
    /\ last.mid.jump_buffer_timer = JUMP_BUFFER_TIME - FrameDt
    /\ player.jumps = 1
    /\ player.vel.y = JUMP_VEL

\* C4 as claimed: the body left the ground without jumping, queue_jump is
\* called in the air less than COYOTE_TIME of tick time after the last
\* grounded tick, and the next update performs a jump.
C4_Original ==
    [][(/\ Ticked
        /\ ~player.on_ground
        /\ air.jumps = 0
        /\ air.time < COYOTE_TIME
        /\ player.jump_buffer_timer = JUMP_BUFFER_TIME)
       => player'.vel.y = JUMP_VEL]_vars

\* C4: the same when that elapsed time plus the dt of the consuming update is
\* still less than COYOTE_TIME: the update performs a jump, whatever jumps is.
C4_CoyoteGrace ==
    [][(/\ Ticked
        /\ ~player.on_ground
        /\ air.jumps = 0
        /\ player.jump_buffer_timer = JUMP_BUFFER_TIME
        /\ air.time + (JUMP_BUFFER_TIME - last'.mid.jump_buffer_timer) < COYOTE_TIME)
       => /\ player'.vel.y = JUMP_VEL
          /\ player'.jumps = player.jumps + 1
          /\ last'.jumped]_vars

\* a jump that only the coyote timer allowed: in the air, both jumps used
C4_Witness ==
    /\ last.jumped
    /\ ~last.mid.on_ground
    /\ last.mid.jumps >= 2
    /\ last.mid.coyote_timer > 0
    /\ player.vel.y = JUMP_VEL

\* C5: a press that is pending in the air and cannot be consumed there
\* (coyote time over, both jumps used) is held while the body stays airborne
\* and fires in the tick in which move_and_collide finds the body grounded
\* with jump_buffer_timer still > 0.
C5_BufferedLanding ==
    [][(/\ Ticked
        /\ player.jump_buffer_timer > 0
        /\ ~player.on_ground
        /\ player.coyote_timer <= 0
        /\ player.jumps >= 2)
       => LET m == last'.mid
          IN  /\ (m.on_ground /\ m.jump_buffer_timer > 0)
                    => /\ last'.jumped
                       /\ player'.vel.y = JUMP_VEL
                       /\ player'.jump_buffer_timer = 0
              /\ ~m.on_ground
                    => /\ ~last'.jumped
                       /\ player'.jump_buffer_timer = m.jump_buffer_timer
                       /\ player'.vel.y = m.vel.y]_vars

\* the held press fired in the tick in which the falling body hit the floor
C5_Witness ==
    /\ last.held
    /\ last.landed
    /\ last.mid.on_ground
    /\ last.jumped
    /\ player.vel.y = JUMP_VEL

\* C6 as claimed: at rest on a Solid with zero velocity, nothing queued and
\* no input since, the body is grounded at the end of every tick.
C6_Original == rest.still > 0 => player.on_ground

\* C6: the same for a body whose dash acceleration is zero as well.
C6_GroundingIdempotence == rest.idle > 0 => player.on_ground

\* three updates without input after the body came to rest
C6_Witness == rest.idle >= 4 /\ player.on_ground /\ on_top(player, solids)

\* C7: a body that overlaps no Solid and moves by less than TILE_SIZE on each
\* axis in a tick overlaps no Solid after move_and_collide.
C7_NoTunneling ==
    [][(/\ Ticked
        /\ ~overlaps(player.rect, solids)
        /\ player'.vel.x < TILE_SIZE * Half
        /\ player'.vel.x > -(TILE_SIZE * Half)
        /\ player.vel.y + GRAVITY < TILE_SIZE * Half
        /\ player.vel.y + GRAVITY > -(TILE_SIZE * Half))
       => ~overlaps(player'.rect, solids)]_vars

\* a tick that ran into a Solid on both axes and was pushed out of both
C7_Witness ==
    /\ last.hit_x
    /\ last.hit_y
    /\ player.vel.x # 0
    /\ player.vel.x < TILE_SIZE * Half
    /\ player.vel.x > -(TILE_SIZE * Half)
    /\ ~overlaps(player.rect, solids)

\* no jump or dash has been queued
NoPress == presses.jump = 0 /\ presses.dash = 0

\* C8 as claimed: Player((100, 100)) over the Solid (100, 148, 48, 48) is
\* grounded with vel.y = 0 and rect.bottom = 148 after one update.
C8_Original ==
    (ticks = 1 /\ NoPress)
        => /\ player.on_ground
           /\ player.vel.y = 0
           /\ player.rect.y + player.rect.h = 148

\* C8: after one update that body is still airborne, 5 pixels above the
\* Solid; it is grounded with rect.bottom = 148 from the 4th update on and
\* has vel.y = 0 after the 5th.
C8_LandingScenario ==
    /\ (ticks = 1 /\ NoPress)
           => /\ ~player.on_ground
              /\ player.vel.y = GRAVITY
              /\ player.rect.y + player.rect.h = 143
    /\ (ticks \in {4, 5} /\ NoPress)
           => /\ player.on_ground
              /\ player.rect.y + player.rect.h = 148
    /\ (ticks = 5 /\ NoPress) => player.vel.y = 0

\* the body on the Solid after the 5th update
C8_Witness ==
    /\ ticks = 5
    /\ NoPress
    /\ last.landed
    /\ player.on_ground
    /\ player.vel.y = 0
    /\ player.rect.y + player.rect.h = 148

\* C9: at every tick boundary rect is the rounded projection of pos.
C9_RectIsRoundedPos ==
    /\ player.rect.x = round(player.pos.x)
    /\ player.rect.y = round(player.pos.y)

\* a tick in which a clamp moved the rect on each axis
C9_Witness ==
    /\ last.hit_x
    /\ last.landed
    /\ player.pos.x = player.rect.x * Half
    /\ player.pos.y = player.rect.y * Half

\* C10 as claimed: a downward collision resolved in the vertical pass leaves
\* the body on the Solid with vel.y = 0 and the jump counter reset to zero.
C10_Original ==
    (ticks > 0 /\ last.landed)
        => /\ on_top(last.mid, solids)
           /\ last.mid.vel.y = 0
           /\ last.mid.on_ground
           /\ last.mid.jumps = 0

\* C11 as claimed: in every reachable state jumps is between 0 and 2.
C11_Original == player.jumps \in 0..2

\* C12: at the end of move_and_collide on_ground is true if and only if a
\* downward collision was resolved in this tick or the rect moved down by one
\* pixel overlaps a Solid; a body whose bottom touches the top of a Solid is
\* grounded, and without a landing and with no Solid within one pixel below
\* it the body is not grounded.
C12_GroundedIffLandedOrProbe ==
    ticks > 0 =>
        LET m == last.mid
            below == overlaps(move(m.rect, 0, 1), solids)
        IN  /\ m.on_ground <=> (last.landed \/ below)
            /\ on_top(m, solids) => m.on_ground
            /\ (~last.landed /\ ~below) => ~m.on_ground

\* grounded by the probe alone: the body fell by less than a pixel, touches
\* the Solid without overlapping it and no collision was resolved
C12_Witness ==
    /\ ticks > 0
    /\ last.mid.on_ground
    /\ ~last.landed
    /\ ~last.hit_y
    /\ last.mid.vel.y > 0
    /\ on_top(last.mid, solids)
    /\ ~overlaps(last.mid.rect, solids)

\* C13: at every tick boundary a grounded body has its coyote timer at the
\* full COYOTE_TIME.
C13_GroundedRearmsCoyote == player.on_ground => player.coyote_timer = COYOTE_TIME

\* after a jump, whose consumption put the timer to 0, a tick that ended
\* grounded by a landing, with the timer back at COYOTE_TIME
C13_Witness ==
    /\ last.landed
    /\ air.time = 0
    /\ player.on_ground
    /\ player.coyote_timer = COYOTE_TIME
    /\ player.jumps > 0

\* C14: a dash is performed in a tick if and only if dash_buffer_timer is
\* strictly negative at the consumption step; it then leaves acceleration at
\* DASH_VEL in the facing direction and the timer at 0.  It is not performed
\* on a positive or zero timer, so never in the update right after
\* queue_dash when dt < DASH_BUFFER_TIME.
C14_DashOnNegativeTimer ==
    [][Ticked =>
        LET m == last'.mid
            p == player'
        IN  /\ last'.dashed <=> m.dash_buffer_timer < 0
            /\ last'.dashed =>
                   /\ p.acceleration = (IF p.direction = "right" THEN DASH_VEL ELSE -DASH_VEL)
                   /\ p.dash_buffer_timer = 0
            /\ ~last'.dashed =>
                   /\ p.acceleration = m.acceleration
                   /\ p.dash_buffer_timer = m.dash_buffer_timer
            /\ player.dash_buffer_timer = DASH_BUFFER_TIME => ~last'.dashed]_vars

\* the dash of the only queue_dash, fired two or more updates after it
C14_Witness ==
    /\ last.dashed
    /\ last.mid.dash_buffer_timer < 0
    /\ player.acceleration \in {DASH_VEL, -DASH_VEL}
    /\ player.dash_buffer_timer = 0
    /\ presses.dash = 1
    /\ ticks >= 2

\* the largest dt of an update
MaxDt == CHOOSE d \in DTs : \A e \in DTs : e <= d

\* C15: in every update the three timers are decremented by one and the same
\* dt where they are > 0 and left as they are where they are <= 0; so a timer
\* that expires in a tick stays above -dt, and between ticks no timer is below
\* -dt of a tick or above its arming constant.
C15_TimerDecrement ==
    [][/\ Ticked =>
            \E dt \in DTs :
                LET step(before, after) ==
                        /\ before > 0 => (after = before - dt /\ after > -dt)
                        /\ before <= 0 => after = before
                IN  /\ step(player.coyote_timer, last'.coyote)
                    /\ step(player.jump_buffer_timer, last'.mid.jump_buffer_timer)
                    /\ step(player.dash_buffer_timer, last'.mid.dash_buffer_timer)
       /\ player'.coyote_timer > -MaxDt
       /\ player'.coyote_timer <= COYOTE_TIME
       /\ player'.jump_buffer_timer > -MaxDt
       /\ player'.jump_buffer_timer <= JUMP_BUFFER_TIME
       /\ player'.dash_buffer_timer > -MaxDt
       /\ player'.dash_buffer_timer <= DASH_BUFFER_TIME]_vars

\* the three cases at once: the coyote timer expired below 0 in the air, the
\* dash timer is running and the jump timer is idle at 0
C15_Witness ==
    /\ ~player.on_ground
    /\ last.coyote < 0
    /\ player.coyote_timer = last.coyote
    /\ player.dash_buffer_timer \in 1..(DASH_BUFFER_TIME - 1)
    /\ player.jump_buffer_timer = 0

\* C16: the animation state computed at the end of a tick is a function of
\* on_ground, vel.x and vel.y at that point: airborne with vel.y < 0 is jump,
\* airborne with vel.y >= 0 is fall, grounded with |vel.x| > 0.1 is run and
\* grounded with |vel.x| <= 0.1 is idle; so grounded with vel.x = 0 is idle,
\* airborne with vel.y = -5 is jump and airborne with vel.y = 5 is fall.
C16_AnimationState ==
    ticks > 0 =>
        LET p == player
            s == last.state
        IN  /\ (~p.on_ground /\ p.vel.y < 0) => s = "jump"
            /\ (~p.on_ground /\ p.vel.y >= 0) => s = "fall"
            /\ (p.on_ground /\ (p.vel.x > 0 \/ p.vel.x < 0)) => s = "run"
            /\ (p.on_ground /\ p.vel.x = 0) => s = "idle"
            /\ state([p EXCEPT !.on_ground = TRUE, !.vel.x = 0]) = "idle"
            /\ state([p EXCEPT !.on_ground = FALSE, !.vel.y = -5 * Half]) = "jump"
            /\ state([p EXCEPT !.on_ground = FALSE, !.vel.y = 5 * Half]) = "fall"

\* a tick classified run: the body is back on the Solid and walks
C16_Witness ==
    /\ ticks > 0
    /\ last.state = "run"
    /\ player.on_ground
    /\ player.vel.x = MOVE_SPEED
    /\ player.vel.y = 0

\* C17: an update classified idle, run or jump makes that the active clip; an
\* update classified fall sets nothing, so the clip stays what it was; no
\* update makes fall, attack or hurt the active clip.
C17_FallNotApplied ==
    [][Ticked =>
        LET s == last'.state
        IN  /\ s \in {"idle", "run", "jump"} => visual'.clip = s
            /\ s = "fall" => visual' = visual
            /\ s \in {"idle", "run", "jump", "fall"}
            /\ visual'.clip \in {"fall", "attack", "hurt"} => visual'.clip = visual.clip]_vars

\* the body walked on the Solid in one tick and left it in the next, which
\* was classified fall and kept the clip run
C17_Witness ==
    /\ last.state = "fall"
    /\ ~player.on_ground
    /\ air.time = FrameDt
    /\ visual.clip = "run"

\* C18: in the main loop an update runs only after every fetched event of the
\* frame has been handled (each jump or dash key press by its queue call),
\* exactly one update runs per drawn frame, and a queue call happens only in
\* the event phase, between updates.
C18_OneUpdatePerFrame ==
    [][/\ ticks' # ticks =>
            /\ ticks' = ticks + 1
            /\ loop.pc = "events" /\ loop.pending = <<>>
            /\ presses.jump + presses.dash = loop.fetched
            /\ loop'.pc = "draw"
       /\ presses' # presses =>
            /\ loop.pc = "events" /\ loop'.pc = "events"
            /\ Len(loop'.pending) = Len(loop.pending) - 1
            /\ ticks' = ticks
            /\ presses'.jump + presses'.dash = presses.jump + presses.dash + 1
       /\ loop'.frames # loop.frames =>
            /\ loop'.frames = loop.frames + 1
            /\ ticks = loop'.frames
            /\ ticks' = ticks
       /\ ticks' = loop'.frames + (IF loop'.pc = "draw" THEN 1 ELSE 0)]_vars

\* the second frame: two key presses were fetched, both were handled, then
\* the update ran, once
C18_Witness ==
    /\ loop.pc = "draw"
    /\ loop.frames = 1
    /\ ticks = 2
    /\ loop.fetched = 2
    /\ presses.jump = 1 /\ presses.dash = 1
    /\ player.jump_buffer_timer < JUMP_BUFFER_TIME
    /\ player.dash_buffer_timer < DASH_BUFFER_TIME
    /\ player.dash_buffer_timer > 0

\* C19: the Level built from a tilemap has exactly one Solid
\* (col * TILE_SIZE, row * TILE_SIZE, TILE_SIZE, TILE_SIZE) for each uppercase
\* X of the map, in row-major order, and none for any other character; its
\* size is (len(first row) * TILE_SIZE, number of rows * TILE_SIZE).
C19_LevelConstruction ==
    level.built =>
        LET m == level.tilemap
            s == level.solids
            cols == UNION {1..Len(m[r]) : r \in 1..Len(m)}
            X == {rc \in (1..Len(m)) \X cols :
                      rc[2] <= Len(m[rc[1]]) /\ m[rc[1]][rc[2]] = "X"}
            cell(i) == <<(s[i].y \div TILE_SIZE) + 1, (s[i].x \div TILE_SIZE) + 1>>
        IN  /\ Len(s) = Cardinality(X)
            /\ \A i \in 1..Len(s) :
                   /\ cell(i) \in X
                   /\ s[i] = Rect((cell(i)[2] - 1) * TILE_SIZE, (cell(i)[1] - 1) * TILE_SIZE,
                                  TILE_SIZE, TILE_SIZE)
            /\ \A i, j \in 1..Len(s) :
                   i < j => \/ cell(i)[1] < cell(j)[1]
                            \/ (cell(i)[1] = cell(j)[1] /\ cell(i)[2] < cell(j)[2])
            /\ level.size = <<Len(m[1]) * TILE_SIZE, Len(m) * TILE_SIZE>>

\* the level of a map of two rows with two X and a lowercase x
C19_Witness ==
    /\ level.built
    /\ level.tilemap = << <<".", "X">>, <<"X", "x">> >>
    /\ level.solids = << Rect(48, 0, 48, 48), Rect(0, 48, 48, 48) >>
    /\ level.size = <<96, 96>>

\* C20: anim_surfs raises nothing and returns a non-empty list of frames for
\* every animation name and entity name: one frame per matching box where the
\* metadata has boxes of that entity and animation, and a single placeholder
\* frame where it has none (no boxes at all included).
C20_PlaceholderOnMissing ==
    sheet.call # <<>> =>
        LET name == sheet.call[1]
            entity_name == sheet.call[2]
            boxes == sheet.meta
            entity == IF entity_name \notin {None, ""} THEN entity_name
                      ELSE IF Len(boxes) > 0 THEN boxes[1].entity_name ELSE None
            found == {i \in 1..Len(boxes) :
                          boxes[i].entity_name = entity /\ boxes[i].animation_name = name}
            frames == sheet.out.value
        IN  /\ sheet.out.error = None
            /\ Len(frames) >= 1
            /\ found = {} => (Len(frames) = 1 /\ frames[1].image = "placeholder")
            /\ found # {} =>
                   /\ Len(frames) = Cardinality(found)
                   /\ \A k \in 1..Len(frames) :
                          \E i \in found : frames[k] = [size |-> <<boxes[i].rect.w, boxes[i].rect.h>>,
                                                        image |-> boxes[i].rect]

\* the metadata has boxes of the entity asked for, none of them of the
\* animation asked for: one placeholder frame of the size of the first box
\* of that entity
C20_Witness ==
    /\ Len(sheet.meta) = 2
    /\ sheet.meta[1].entity_name = "slime"
    /\ sheet.meta[2].entity_name = "bytebuddy"
    /\ sheet.call = <<"attack", "bytebuddy">>
    /\ sheet.out.error = None
    /\ sheet.out.value = << [size |-> <<sheet.meta[2].rect.w, sheet.meta[2].rect.h>>,
                             image |-> "placeholder"] >>

\* C24 as claimed: when the rect overlaps several Solids after the move of a
\* pass, the last of them in list order determines the edge the rect is
\* clamped to, in the horizontal pass and in the vertical pass alike.
C24_Original ==
    [][Ticked =>
        LET vx == player'.vel.x
            vy == player.vel.y + GRAVITY
            rx == [player.rect EXCEPT !.x = round(player.pos.x + vx)]
            hx == hits(rx, solids)
            ry == [player'.rect EXCEPT !.y = round(player.pos.y + vy)]
            hy == hits(ry, solids)
        IN  /\ (Len(hx) > 1 /\ vx > 0) => player'.rect.x = hx[Len(hx)].x - player.rect.w
            /\ (Len(hx) > 1 /\ vx < 0) => player'.rect.x = hx[Len(hx)].x + hx[Len(hx)].w
            /\ (Len(hy) > 1 /\ vy > 0) => player'.rect.y = hy[Len(hy)].y - player.rect.h
            /\ (Len(hy) > 1 /\ vy < 0) => player'.rect.y = hy[Len(hy)].y + hy[Len(hy)].h]_vars

\* C27 as claimed: a body that starts clear of every Solid overlaps no Solid
\* at the end of any tick.
C27_Original == ~overlaps(player.rect, solids)

\* the consumption step of an update leaves the body m as it is: no jump and
\* no dash is consumed
quiet(m) == ~jump_allowed(m) /\ ~(m.dash_buffer_timer < 0)

\* C25: always, from the state reached and for every key input, an update adds
\* GRAVITY to vel.y before it moves the body, grounded or not; where a pass
\* of move_and_collide meets no Solid, pos advances on that axis by exactly
\* the velocity (pos.x by vel.x, pos.y by the vel.y that includes the
\* gravity of this tick), with the dt of a frame and with the largest dt
\* alike; and the two updates, if both consume neither a jump nor a dash,
\* end with the same pos, vel and rect.
C25_DtIndependence ==
    [](\A keys \in Keys :
          \E t1 \in {before_move(player, keys, FrameDt)} :
          \E t2 \in {before_move(player, keys, MaxDt)} :
          \E h1 \in {horizontal(t1, solids)} :
          \E h2 \in {horizontal(t2, solids)} :
          \E m1 \in {decay(ground(vertical(h1, solids), solids))} :
          \E m2 \in {decay(ground(vertical(h2, solids), solids))} :
              LET integrated(t, h, m) ==
                      /\ t.vel.y = player.vel.y + GRAVITY
                      /\ ~overlaps([t.rect EXCEPT !.x = round(t.pos.x + t.vel.x)], solids)
                            => m.pos.x = player.pos.x + m.vel.x
                      /\ ~overlaps([h.rect EXCEPT !.y = round(h.pos.y + h.vel.y)], solids)
                            => /\ m.vel.y = player.vel.y + GRAVITY
                               /\ m.pos.y = player.pos.y + m.vel.y
              IN  /\ integrated(t1, h1, m1)
                  /\ integrated(t2, h2, m2)
                  /\ (quiet(m1) /\ quiet(m2)) =>
                          /\ consume(m1).pos = consume(m2).pos
                          /\ consume(m1).vel = consume(m2).vel
                          /\ consume(m1).rect = consume(m2).rect)

\* a grounded body with a dash pending, after an update: walking left it
\* meets no Solid, the gravity is added although it is grounded, and the
\* updates with the two dt leave different timers and the same pos, vel and
\* rect
C25_Witness ==
    /\ ticks > 0
    /\ player.on_ground
    /\ player.dash_buffer_timer = DASH_BUFFER_TIME
    /\ \E u1 \in {update(player, [left |-> TRUE, right |-> FALSE], solids, FrameDt)} :
       \E u2 \in {update(player, [left |-> TRUE, right |-> FALSE], solids, MaxDt)} :
            /\ u1.dash_buffer_timer # u2.dash_buffer_timer
            /\ u1.pos = u2.pos
            /\ u1.pos.x = player.pos.x - MOVE_SPEED
            /\ u1.pos.y = player.pos.y + player.vel.y + GRAVITY
            /\ u1.vel.y = player.vel.y + GRAVITY

\* C26: a call of queue_jump leaves the Player as it was but for
\* jump_buffer_timer, which is JUMP_BUFFER_TIME after it, and a call of
\* queue_dash leaves it as it was but for dash_buffer_timer, which is
\* DASH_BUFFER_TIME after it; a call that follows another one of its kind
\* with no update in between changes nothing.
C26_QueueFrame ==
    [][/\ presses'.jump = presses.jump + 1 =>
            /\ player'.jump_buffer_timer = JUMP_BUFFER_TIME
            /\ player' = [player EXCEPT !.jump_buffer_timer = player'.jump_buffer_timer]
            /\ player.jump_buffer_timer = JUMP_BUFFER_TIME => player' = player
       /\ presses'.dash = presses.dash + 1 =>
            /\ player'.dash_buffer_timer = DASH_BUFFER_TIME
            /\ player' = [player EXCEPT !.dash_buffer_timer = player'.dash_buffer_timer]
            /\ player.dash_buffer_timer = DASH_BUFFER_TIME => player' = player]_vars

\* three calls of queue_jump and one update, so two or more of the calls had
\* no update between them: the timer is at JUMP_BUFFER_TIME as after one call
\* and the body is as the update left it
C26_Witness ==
    /\ ticks = 1
    /\ presses.jump = 3
    /\ player.jump_buffer_timer = JUMP_BUFFER_TIME
    /\ player.dash_buffer_timer = 0
    /\ player.on_ground
    /\ player.coyote_timer = COYOTE_TIME

\* C28: jumps goes up by one in exactly the updates that consume a jump and
\* changes in no other step, and the number of jumps consumed, plus one if
\* a press is pending in the buffer, never exceeds the number of queue_jump
\* calls; an update that finds jump_buffer_timer at or below zero consumes
\* no jump and leaves the timer where it is.
C28_OneJumpPerPress ==
    [][/\ player'.jumps + (IF player'.jump_buffer_timer > 0 THEN 1 ELSE 0) <= presses'.jump
       /\ player'.jumps = player.jumps + (IF Ticked /\ last'.jumped THEN 1 ELSE 0)
       /\ (Ticked /\ last'.jumped) => player'.jump_buffer_timer = 0
       /\ (Ticked /\ player.jump_buffer_timer <= 0) =>
            /\ ~last'.jumped
            /\ player'.jump_buffer_timer = player.jump_buffer_timer]_vars

\* two presses, each consumed by a jump, and then an update that had the
\* conditions of a jump (grounded again) and no press left to consume
C28_Witness ==
    /\ presses.jump = 2
    /\ player.jumps = 2
    /\ ~last.jumped
    /\ last.mid.on_ground
    /\ player.jump_buffer_timer = 0

\* C29: in the update that follows queue_jump the buffer is first run down
\* by dt.  With dt >= JUMP_BUFFER_TIME nothing is left of it: no jump is
\* performed, grounded or not, and the timer ends at or below zero, so the
\* press is lost.  With dt < JUMP_BUFFER_TIME a press made on the ground is
\* consumed by this update.
C29_BufferSurvivesDecrement ==
    [][(Ticked /\ player.jump_buffer_timer = JUMP_BUFFER_TIME) =>
        LET dt == JUMP_BUFFER_TIME - last'.mid.jump_buffer_timer
        IN  /\ dt \in DTs
            /\ dt >= JUMP_BUFFER_TIME =>
                    /\ ~last'.jumped
                    /\ player'.jumps = player.jumps
                    /\ player'.vel.y # JUMP_VEL
                    /\ player'.jump_buffer_timer <= 0
            /\ (dt < JUMP_BUFFER_TIME /\ player.on_ground) =>
                    /\ last'.jumped
                    /\ player'.vel.y = JUMP_VEL
                    /\ player'.jumps = player.jumps + 1]_vars

\* the only press was made on the ground and the update after it, with
\* dt = JUMP_BUFFER_TIME, found the body grounded and did not jump
C29_Witness ==
    /\ presses.jump = 1
    /\ player.jumps = 0
    /\ player.jump_buffer_timer = 0
    /\ ~last.jumped
    /\ last.mid.on_ground
    /\ player.on_ground
    /\ ticks >= 2

Called(name) == editor'.inputs = editor.inputs + 1 /\ editor'.event[1] = name

\* C22: a RectItem enters resize mode only on a left-button press with the
\* Ctrl modifier held and within HANDLE_MARGIN of an edge, and a left
\* press-and-drag on a box without Ctrl moves the box and never changes a
\* width or a height
C22_Original ==
    [][/\ \A i \in 1..Len(editor.items) :
            (/\ i <= Len(editor'.items)
             /\ ~editor.items[i]._resizing
             /\ editor'.items[i]._resizing)
            => /\ Called("mousePressEvent")
               /\ editor'.mouse.button = "left"
               /\ editor'.mouse.modifiers = "ctrl"
               /\ _hit_test_handles(editor.items[i],
                                    mapFromScene(editor, i, editor'.mouse.press)) # {}
       /\ (/\ Called("mouseMoveEvent")
           /\ editor.mouse.button = "left"
           /\ editor.mouse.modifiers = "none"
           /\ editor.mouse.grabber # 0)
            => LET g == editor.mouse.grabber
               IN  /\ \A i \in 1..Len(editor.items) :
                        editor'.items[i].rect = editor.items[i].rect
                   /\ editor'.items[g].pos.x - editor.mouse.origin[g].x
                        = editor'.mouse.pos.x - editor.mouse.press.x
                   /\ editor'.items[g].pos.y - editor.mouse.origin[g].y
                        = editor'.mouse.pos.y - editor.mouse.press.y]_vars

\* C23: a box is created on mouse release only if an image is loaded and
\* the drag began as a left press with Shift held; the box lies within the
\* image rectangle and is at least 1 wide and 1 high; from the press to the
\* release _drawing is True and there is one rubber-band item, and after
\* the release there is none
C23_Original ==
    [][/\ (Called("mouseReleaseEvent") /\ Len(editor'.items) > Len(editor.items))
            => /\ image_loaded(editor)
               /\ editor.mouse.button = "left"
               /\ editor.mouse.modifiers = "shift"
               /\ Len(editor'.items) = Len(editor.items) + 1
               /\ LET box == scene_rect(editor'.items[Len(editor'.items)])
                      img == editor._pixmap_item[1]
                  IN  /\ 0 <= box.x /\ box.x + box.w <= Half * img.w
                      /\ 0 <= box.y /\ box.y + box.h <= Half * img.h
                      /\ box.w >= 1 * Half
                      /\ box.h >= 1 * Half
       /\ (/\ image_loaded(editor')
           /\ editor'.mouse.button = "left"
           /\ editor'.mouse.modifiers = "shift")
            => editor'._drawing /\ Len(editor'._rubber_item) = 1
       /\ idle(editor') => ~editor'._drawing /\ editor'._rubber_item = <<>>]_vars

\* the field k is named in the payload changes
named(changes, k) ==
    IF k \in {"x", "y", "w", "h"}
    THEN "rect" \in DOMAIN changes /\ k \in DOMAIN changes.rect
    ELSE k \in DOMAIN changes

\* the fields of a box the panel shows, geometry in sub-pixel units
fields(it) ==
    [entity_name |-> it.meta.entity_name,
     animation_name |-> it.meta.animation_name,
     frame_number |-> it.meta.frame_number,
     x |-> it.pos.x, y |-> it.pos.y, w |-> it.rect.w, h |-> it.rect.h]

\* C21: on_meta_fields_changed(changes) leaves every box that is not
\* selected unchanged, and on every selected box each of entity_name,
\* animation_name, frame_number, x, y, w, h that changes does not name
\* keeps its value
C21_Original ==
    [][Called("on_meta_fields_changed")
        => /\ Len(editor'.items) = Len(editor.items)
           /\ \A i \in 1..Len(editor.items) :
                IF i \in get_selected_rect_items(editor)
                THEN \A k \in DOMAIN fields(editor.items[i]) :
                        ~named(editor'.event[2], k)
                        => fields(editor'.items[i])[k] = fields(editor.items[i])[k]
                ELSE editor'.items[i] = editor.items[i]]_vars

\* C31: acceleration is always a multiple of 5 and at most DASH_VEL in
\* size; a tick that performs no dash takes it 5 nearer to zero and leaves
\* zero alone, so that k ticks after a dash its size is DASH_VEL - 5 k: it
\* is zero after DecayTicks = 15 ticks and stays zero
C31_DashDiesOut ==
    [][LET a == player.acceleration
           b == player'.acceleration
       IN  /\ b % ACCEL_DECAY = 0
           /\ abs(b) <= DASH_VEL
           /\ dash'.ticks <= DecayTicks
                => abs(b) = DASH_VEL - ACCEL_DECAY * dash'.ticks
           /\ dash'.ticks > DecayTicks => b = 0
           /\ (Ticked /\ ~last'.dashed)
                => /\ a > 0 => (b = a - ACCEL_DECAY /\ b >= 0)
                   /\ a < 0 => (b = a + ACCEL_DECAY /\ b <= 0)
                   /\ a = 0 => b = 0
           /\ (Ticked /\ last'.dashed) => (abs(b) = DASH_VEL /\ dash'.ticks = 0)
           /\ ~Ticked => b = a]_vars

\* a dash has died out: the tick after its fifteenth found acceleration at
\* zero and left it there
C31_Witness ==
    /\ dash.count = 1
    /\ dash.ticks = DecayTicks + 1
    /\ last.mid.acceleration = 0
    /\ player.acceleration = 0

\* C32: the tick that performs a dash sets acceleration to +DASH_VEL when
\* direction is right in that tick and to -DASH_VEL when it is left, whatever
\* direction was when queue_dash was called; direction changes only in an
\* update with a left or right key held, to the side of the key (to the
\* right with both).  vel.x is what handle_input set plus the acceleration
\* the tick began with, so the difference tells the keys.
C32_DashDirection ==
    [][LET input == player'.vel.x - player.acceleration
       IN  /\ (Ticked /\ last'.dashed)
                => player'.acceleration = IF player'.direction = "right"
                                          THEN DASH_VEL ELSE -DASH_VEL
           /\ player'.direction # player.direction
                => /\ Ticked
                   /\ input \in {MOVE_SPEED, -MOVE_SPEED}
                   /\ player'.direction = IF input > 0 THEN "right" ELSE "left"
           /\ (Ticked /\ input = 0) => player'.direction = player.direction]_vars

\* queue_dash was called before the first update, when direction was right;
\* the player has turned since and the second update has performed the dash
\* to the left
C32_Witness ==
    /\ ticks = 2
    /\ presses.dash = 1
    /\ dash.count = 1
    /\ last.dashed
    /\ player.direction = "left"
    /\ player.acceleration = -DASH_VEL

\* C36 (as stated): metadata round trip.  For every SpriteSheetMeta m made by
\* SpriteSheetMeta.from_mapping or built by a SpriteSheetMetaBuilder, with any
\* extras handed to add_box, SpriteSheetMeta.from_mapping(m.to_mapping()) equals
\* m: the same boxes in the same order, each with the same rect, entity_name,
\* animation_name, frame_number, id and extras, and the same image_path and
\* image_size.
C36_Original == meta.back # <<>> => meta.back = meta.m

\* C33 (as stated): the box registry.  After any sequence of add_new_box,
\* on_box_created, delete_selected_box, opening or dropping an image and
\* load_metadata_path of any file, the keys of box_index, the ids held by
\* the rows of the list and the box_ids of the RectItems in the scene are
\* the same set, no id occurs twice among the rows or among the RectItems,
\* and box_counter is greater than every id in use.
C33_Original ==
    LET rows == 1..Len(editor.rows)
        items == 1..Len(editor.items)
        ids == {editor.items[i].box_id : i \in items}
    IN  /\ DOMAIN editor.box_index = ids
        /\ {editor.rows[r] : r \in rows} = ids
        /\ \A i, j \in items : editor.items[i].box_id = editor.items[j].box_id => i = j
        /\ \A r, q \in rows : editor.rows[r] = editor.rows[q] => r = q
        /\ \A id \in ids : id < editor.box_counter

\* C34 (as stated): a failed image load leaves the editor unchanged.  When
\* open_image_path or a dropped PNG names a file that is no image, the image
\* shown, the boxes, box_counter and image_path keep their values, so
\* save_metadata writes the path of the image that is shown.
C34_Original ==
    [][/\ (/\ editor'.inputs = editor.inputs + 1
           /\ editor'.event[1] \in {"open_image_path", "dropEvent"}
           /\ editor'.event[2] \in DOMAIN Pixmaps
           /\ Pixmaps[editor'.event[2]] = <<>>)
          => /\ editor'._pixmap_item = editor._pixmap_item
             /\ editor'.items = editor.items
             /\ editor'.rows = editor.rows
             /\ editor'.box_index = editor.box_index
             /\ editor'.box_counter = editor.box_counter
             /\ editor'.image_path = editor.image_path
       /\ files' # files
          => /\ files'[editor'.event[2]].image_path \in DOMAIN Pixmaps
             /\ Pixmaps[files'[editor'.event[2]].image_path] = editor._pixmap_item]_vars

\* the boxes of the editor: how many RectItems of the scene have the id,
\* the scene rectangle and the metadata of it
boxes_in(e, it) ==
    Cardinality({i \in 1..Len(e.items) :
                    /\ e.items[i].box_id = it.box_id
                    /\ scene_rect(e.items[i]) = scene_rect(it)
                    /\ e.items[i].meta = it.meta})

\* every box lies on whole pixels
whole(e) ==
    \A i \in 1..Len(e.items) :
        /\ e.items[i].pos.x % Half = 0 /\ e.items[i].pos.y % Half = 0
        /\ e.items[i].rect.w % Half = 0 /\ e.items[i].rect.h % Half = 0

\* C35: save and load round trip of the editor.  When the boxes lie on whole
\* pixels, save_metadata followed by load_metadata_path of the file written
\* gives the same boxes, each with the same id, x, y, w, h, entity_name,
\* animation_name and frame_number, and leaves box_counter at the largest
\* id plus 1 (0 without boxes).
C35_SaveLoad ==
    [][(/\ editor.event[1] = "save_metadata"
        /\ editor.event[2] # ""
        /\ image_loaded(editor)
        /\ whole(editor)
        /\ editor'.inputs = editor.inputs + 1
        /\ editor'.event = <<"load_metadata_path", editor.event[2]>>)
       => /\ Len(editor'.items) = Len(editor.items)
          /\ \A i \in 1..Len(editor.items) :
                boxes_in(editor', editor.items[i]) = boxes_in(editor, editor.items[i])
          /\ \A i \in 1..Len(editor'.items) : editor'.items[i].box_id < editor'.box_counter
          /\ \/ editor'.box_counter = 0 /\ editor'.items = <<>>
             \/ \E i \in 1..Len(editor'.items) :
                   editor'.items[i].box_id + 1 = editor'.box_counter]_vars

\* the file of two boxes with the ids 3 and 1 was loaded, the box 3 deleted
\* with box_counter left at 4, the box 1 saved and read back: box_counter is 2
C35_Witness ==
    /\ editor.event = <<"load_metadata_path", "metadata">>
    /\ "metadata" \in DOMAIN files
    /\ files.metadata = save_data(editor)
    /\ Len(editor.items) = 1
    /\ editor.items[1].box_id = 1
    /\ scene_rect(editor.items[1]) = Rect(40 * Half, 8 * Half, 16 * Half, 16 * Half)
    /\ editor.box_counter = 2

====
